---------------------------- MODULE Spec2Model ----------------------------
(***************************************************************************)
(* A model of the effect compiler in                                       *)
(* source/d3d11/d3d11_effect_compiler.cpp: the SPIR-V code generator       *)
(* (codegen_spirv), the HLSL code generator (codegen_hlsl) and the D3D11   *)
(* effect linker (d3d11_effect_compiler).                                  *)
(*                                                                         *)
(* The generator object is the record cg; every member function is an     *)
(* operator that takes the object and returns the object after the call,  *)
(* with the value it returns in the field ret.  An action is named after  *)
(* the member function it applies to the object (EnterBlock applies       *)
(* enter_block, Link applies run).                                         *)
(***************************************************************************)
EXTENDS Integers, Sequences, FiniteSets, TLC

VARIABLES
    cg,       \* the code generator object (cg.build: how it was compiled)
    out,      \* the module handed to write_result
    ops,      \* number of generator operations invoked so far
    mon,      \* what the last operation was and what it returned, and the
              \* log of what convert_type and emit_constant returned to
              \* the frontend
    lk        \* the linker object (d3d11_effect_compiler) and its runtime

vars == <<cg, out, ops, mon, lk>>

-----------------------------------------------------------------------------
(* Bounds of the model.                                                    *)

MaxOps == 3
MaxUniforms == 3
MaxLinkRuns == 2
MaxInternOps == 3
MaxBlockOps == 6
MaxFunctions == 2
MaxStringLen == 6
MaxNames == 1
MaxHlslOps == 3
MaxLinks == 2
MaxLocals == 2
MaxWrites == 2

-----------------------------------------------------------------------------
(* Small helpers on sequences and numbers.                                 *)

Max(a, b) == IF a >= b THEN a ELSE b

RECURSIVE SeqMax(_)
SeqMax(s) == IF s = <<>> THEN 0 ELSE Max(Head(s), SeqMax(Tail(s)))

RECURSIVE Flatten(_)
Flatten(ss) == IF ss = <<>> THEN <<>> ELSE Head(ss) \o Flatten(Tail(ss))

Range(s) == {s[i] : i \in 1..Len(s)}

RECURSIVE Pow2(_)
Pow2(n) == IF n = 0 THEN 1 ELSE 2 * Pow2(n - 1)

-----------------------------------------------------------------------------
(* Enumerants of the SPIR-V headers the generator writes as operands.      *)

spv_Op(name) ==
    CASE name = "OpUndef" -> 1
      [] name = "OpName" -> 5
      [] name = "OpMemberName" -> 6
      [] name = "OpString" -> 7
      [] name = "OpLine" -> 8
      [] name = "OpExtension" -> 10
      [] name = "OpExtInstImport" -> 11
      [] name = "OpMemoryModel" -> 14
      [] name = "OpEntryPoint" -> 15
      [] name = "OpCapability" -> 17
      [] name = "OpTypeVoid" -> 19
      [] name = "OpTypeBool" -> 20
      [] name = "OpTypeInt" -> 21
      [] name = "OpTypeFloat" -> 22
      [] name = "OpTypeVector" -> 23
      [] name = "OpTypeMatrix" -> 24
      [] name = "OpTypeImage" -> 25
      [] name = "OpTypeSampledImage" -> 27
      [] name = "OpTypeArray" -> 28
      [] name = "OpTypeRuntimeArray" -> 29
      [] name = "OpTypeStruct" -> 30
      [] name = "OpTypePointer" -> 32
      [] name = "OpTypeFunction" -> 33
      [] name = "OpConstantTrue" -> 41
      [] name = "OpConstantFalse" -> 42
      [] name = "OpConstant" -> 43
      [] name = "OpConstantComposite" -> 44
      [] name = "OpConstantNull" -> 46
      [] name = "OpFunction" -> 54
      [] name = "OpFunctionParameter" -> 55
      [] name = "OpFunctionEnd" -> 56
      [] name = "OpFunctionCall" -> 57
      [] name = "OpVariable" -> 59
      [] name = "OpLoad" -> 61
      [] name = "OpStore" -> 62
      [] name = "OpAccessChain" -> 65
      [] name = "OpDecorate" -> 71
      [] name = "OpMemberDecorate" -> 72
      [] name = "OpCompositeConstruct" -> 80
      [] name = "OpCompositeExtract" -> 81
      [] name = "OpSNegate" -> 126
      [] name = "OpFNegate" -> 127
      [] name = "OpIAdd" -> 128
      [] name = "OpFAdd" -> 129
      [] name = "OpIMul" -> 132
      [] name = "OpFMul" -> 133
      [] name = "OpLoopMerge" -> 246
      [] name = "OpSelectionMerge" -> 247
      [] name = "OpLabel" -> 248
      [] name = "OpBranch" -> 249
      [] name = "OpBranchConditional" -> 250
      [] name = "OpSwitch" -> 251
      [] name = "OpKill" -> 252
      [] name = "OpReturn" -> 253
      [] name = "OpReturnValue" -> 254

spv_StorageClass(name) ==
    CASE name = "UniformConstant" -> 0
      [] name = "Input" -> 1
      [] name = "Uniform" -> 2
      [] name = "Output" -> 3
      [] name = "Private" -> 6
      [] name = "Function" -> 7

spv_Decoration(name) ==
    CASE name = "Block" -> 2
      [] name = "BuiltIn" -> 11
      [] name = "NoPerspective" -> 13
      [] name = "Flat" -> 14
      [] name = "Centroid" -> 16
      [] name = "Location" -> 30
      [] name = "Binding" -> 33
      [] name = "DescriptorSet" -> 34
      [] name = "Offset" -> 35
      [] name = "NoContraction" -> 42

spv_BuiltIn(name) ==
    CASE name = "Position" -> 0
      [] name = "PointSize" -> 1
      [] name = "VertexId" -> 5
      [] name = "FragCoord" -> 15
      [] name = "FragDepth" -> 22
      [] name = "Max" -> 2147483647

-----------------------------------------------------------------------------
(* reshadefx::type and its predicates.                                     *)

Type(base, rows, cols) ==
    [base |-> base, rows |-> rows, cols |-> cols, qualifiers |-> {},
     is_ptr |-> FALSE, is_input |-> FALSE, is_output |-> FALSE,
     array_length |-> 0, definition |-> 0]

type_has(t, q) == q \in t.qualifiers
type_is_array(t) == t.array_length # 0
type_is_matrix(t) == t.rows >= 1 /\ t.cols > 1
type_is_vector(t) == t.rows > 1 /\ t.cols = 1
type_is_numeric(t) == t.base \in {"bool", "int", "uint", "float"}
type_is_scalar(t) ==
    ~type_is_array(t) /\ ~type_is_matrix(t) /\ ~type_is_vector(t) /\ type_is_numeric(t)
type_is_boolean(t) == t.base = "bool"
type_is_void(t) == t.base = "void"
type_is_struct(t) == t.base = "struct"
type_is_texture(t) == t.base = "texture"
type_is_sampler(t) == t.base = "sampler"
type_is_floating_point(t) == t.base = "float"
type_is_signed(t) == t.base \in {"int", "float"}

\* operator==(const type &, const type &): the qualifiers are not compared.
type_eq(lhs, rhs) ==
    /\ lhs.base = rhs.base
    /\ lhs.rows = rhs.rows
    /\ lhs.cols = rhs.cols
    /\ lhs.array_length = rhs.array_length
    /\ lhs.definition = rhs.definition
    /\ lhs.is_ptr = rhs.is_ptr
    /\ lhs.is_input = rhs.is_input
    /\ lhs.is_output = rhs.is_output

-----------------------------------------------------------------------------
(* spirv_instruction and the blocks of the generator.                      *)

Ins(op, type, result, operands) ==
    [op |-> op, type |-> type, result |-> result, operands |-> operands]

\* add_string without the word that follows a string of full words.
add_string_full_words(bytes) ==
    [k \in 1..((Len(bytes) + 3) \div 4) |->
        LET at(i) == IF 4 * (k - 1) + i <= Len(bytes) THEN bytes[4 * (k - 1) + i] ELSE 0
        IN  at(1) + at(2) * 256 + at(3) * 65536 + at(4) * 16777216]

\* spirv_instruction::add_string: the bytes of the string, four to a word,
\* lowest byte first, until a word with a zero byte has been written.
RECURSIVE add_string(_)
add_string(bytes) ==
    LET n    == IF Len(bytes) < 4 THEN Len(bytes) ELSE 4
        word == (IF n >= 1 THEN bytes[1] ELSE 0)
              + (IF n >= 2 THEN bytes[2] * 256 ELSE 0)
              + (IF n >= 3 THEN bytes[3] * 65536 ELSE 0)
              + (IF n >= 4 THEN bytes[4] * 16777216 ELSE 0)
        rest == SubSeq(bytes, n + 1, Len(bytes))
    IN  IF rest # <<>> \/ word \div 16777216 # 0
        THEN <<word>> \o add_string(rest)
        ELSE <<word>>

\* References to the basic blocks an instruction can be appended to.
SecRef(name) == [k |-> "sec", name |-> name, idx |-> 0]
FnRef(part, idx) == [k |-> "fn", name |-> part, idx |-> idx]
BlkRef(id) == [k |-> "blk", name |-> "", idx |-> id]
NullRef == [k |-> "null", name |-> "", idx |-> 0]

block_data_get(g, id) ==
    IF id \in DOMAIN g.block_data THEN g.block_data[id] ELSE <<>>

block_of(g, ref) ==
    CASE ref.k = "sec" -> g[ref.name]
      [] ref.k = "fn"  -> g.functions2[ref.idx][ref.name]
      [] ref.k = "blk" -> block_data_get(g, ref.idx)
      [] ref.k = "null" -> <<>>

block_put(g, ref, instructions) ==
    CASE ref.k = "sec" -> [g EXCEPT ![ref.name] = instructions]
      [] ref.k = "fn"  -> [g EXCEPT !.functions2[ref.idx][ref.name] = instructions]
      [] ref.k = "blk" ->
            [g EXCEPT !.block_data =
                [i \in (DOMAIN g.block_data) \cup {ref.idx} |->
                    IF i = ref.idx THEN instructions ELSE g.block_data[i]]]
      [] ref.k = "null" ->     \* a write through the null pointer
            IF g.aborted # "" THEN g ELSE [g EXCEPT !.aborted = "crash"]

\* codegen::make_id
make_id(g) == [g EXCEPT !.ret = g.next_id, !.next_id = g.next_id + 1]

\* add_instruction_without_result(op, block) followed by the fields and
\* operands the caller sets on the reference it gets back.
add_instruction_without_result(g, ref, ins) ==
    block_put(g, ref, Append(block_of(g, ref), ins))

\* add_instruction(op, type, block): the result id is a fresh id.
add_instruction(g, op, type, ref, operands) ==
    [add_instruction_without_result(g, ref, Ins(op, type, g.next_id, operands))
        EXCEPT !.ret = g.next_id, !.next_id = g.next_id + 1]

align_packed(address, alignment) == address

\* static uint32_t align(uint32_t address, uint32_t alignment)
align(address, alignment) ==
    IF address % alignment # 0
    THEN (address + alignment) - (address % alignment)
    ELSE address


-----------------------------------------------------------------------------
(* Strings are sequences of bytes; these are the ones the model uses.      *)

Chars(s) ==
    CASE s = "" -> <<>>
      [] s = "$Globals" -> <<36, 71, 108, 111, 98, 97, 108, 115>>
      [] s = "GLSL.std.450" -> <<71, 76, 83, 76, 46, 115, 116, 100, 46, 52, 53, 48>>
      [] s = "SPV_GOOGLE_hlsl_functionality1" ->
            <<83, 80, 86, 95, 71, 79, 79, 71, 76, 69, 95, 104, 108, 115, 108, 95,
              102, 117, 110, 99, 116, 105, 111, 110, 97, 108, 105, 116, 121, 49>>
      [] s = "a" -> <<97>>
      [] s = "b" -> <<98>>
      [] s = "c" -> <<99>>
      [] s = "S" -> <<83>>
      [] s = "main" -> <<109, 97, 105, 110>>
      [] s = "fx" -> <<102, 120>>
      [] s = "COLOR" -> <<67, 79, 76, 79, 82>>
      [] s = "COLORFUL" -> <<67, 79, 76, 79, 82, 70, 85, 76>>
      [] s = "COLOR1" -> <<67, 79, 76, 79, 82, 49>>
      [] s = "SV_TARGET" -> <<83, 86, 95, 84, 65, 82, 71, 69, 84>>
      [] s = "SV_TARGET1" -> <<83, 86, 95, 84, 65, 82, 71, 69, 84, 49>>
      [] s = "TEXCOORD" -> <<84, 69, 88, 67, 79, 79, 82, 68>>
      [] s = "TEXCOORD0" -> <<84, 69, 88, 67, 79, 79, 82, 68, 48>>
      [] s = "TEXCOORD2" -> <<84, 69, 88, 67, 79, 79, 82, 68, 50>>
      [] s = "TEXCOORD10" -> <<84, 69, 88, 67, 79, 79, 82, 68, 49, 48>>
      [] s = "SV_POSITION" -> <<83, 86, 95, 80, 79, 83, 73, 84, 73, 79, 78>>
      [] s = "SV_POINTSIZE" -> <<83, 86, 95, 80, 79, 73, 78, 84, 83, 73, 90, 69>>
      [] s = "SV_DEPTH" -> <<83, 86, 95, 68, 69, 80, 84, 72>>
      [] s = "VERTEXID" -> <<86, 69, 82, 84, 69, 88, 73, 68>>
      [] s = "SV_VERTEXID" -> <<83, 86, 95, 86, 69, 82, 84, 69, 88, 73, 68>>
      [] s = "NORMAL" -> <<78, 79, 82, 77, 65, 76>>
      [] s = "TANGENT" -> <<84, 65, 78, 71, 69, 78, 84>>
      [] s = "DEPTH" -> <<68, 69, 80, 84, 72>>
      [] s = "VS" -> <<86, 83>>
      [] s = "PS" -> <<80, 83>>
      [] s = "float" -> <<102, 108, 111, 97, 116>>
      [] s = "int" -> <<105, 110, 116>>
      [] s = "uint" -> <<117, 105, 110, 116>>
      [] s = "bool" -> <<98, 111, 111, 108>>
      [] s = "void" -> <<118, 111, 105, 100>>
      [] s = "__sampler" -> <<95, 95, 115, 97, 109, 112, 108, 101, 114>>
      [] s = "_Globals" -> <<95, 71, 108, 111, 98, 97, 108, 115>>

NoLocation == [source |-> <<>>, line |-> 0, column |-> 0]

-----------------------------------------------------------------------------
(* The codegen_spirv object after its constructor.                         *)

\* codegen_spirv::codegen_spirv(): glsl_ext = make_id(), the first id.
codegen_spirv ==
    [ build |-> "debug",       \* "debug": assert aborts; "release": compiled out
      aborted |-> "",          \* why the process died, if it did
      next_id |-> 2, ret |-> 0,
      entries |-> <<>>, debug_a |-> <<>>, debug_b |-> <<>>, annotations |-> <<>>,
      types_and_constants |-> <<>>, variables |-> <<>>,
      capabilities |-> {},
      type_lookup |-> <<>>, function_type_lookup |-> <<>>, constant_lookup |-> <<>>,
      semantic_to_location |-> <<>>, string_lookup |-> <<>>,
      current_sampler_binding |-> 0, current_semantic_location |-> 10,
      functions2 |-> <<>>, block_data |-> <<>>, current_block_data |-> NullRef,
      global_ubo_offset |-> 0, global_ubo_type |-> 0, global_ubo_variable |-> 0,
      glsl_ext |-> 1, last_block |-> 0,
      current_block |-> 0, current_function |-> -1,
      structs |-> <<>>, textures |-> <<>>, samplers |-> <<>>, uniforms |-> <<>>,
      techniques |-> <<>>, functions |-> <<>>,
      \* the locals of create_entry_point, kept across its steps
      call_params |-> <<>>, inputs_and_outputs |-> <<>>,
      \* the local of emit_load and emit_store, kept after the call
      op_index2 |-> 0 ]

is_in_block(g) == g.current_block # 0
is_in_function(g) == g.current_function # -1

\* assert(condition): a failed assert aborts the debug build; the release
\* build does not evaluate it.
assert(g, condition) ==
    IF condition \/ g.build = "release" \/ g.aborted # "" THEN g
    ELSE [g EXCEPT !.aborted = "assert"]

-----------------------------------------------------------------------------
(* Debug, annotation and name instructions.                                *)

string_lookup_find(g, source) ==
    LET hit == {i \in 1..Len(g.string_lookup) : g.string_lookup[i].key = source}
    IN  IF hit = {} THEN 0 ELSE g.string_lookup[CHOOSE i \in hit : TRUE].id

add_location(g, loc, ref) ==
    IF loc.source = <<>> THEN g
    ELSE LET file == string_lookup_find(g, loc.source)
             g1 == IF file # 0 THEN g
                   ELSE LET gs == add_instruction(g, "OpString", 0, SecRef("debug_a"),
                                                  add_string(loc.source))
                        IN  [gs EXCEPT !.string_lookup =
                                Append(@, [key |-> loc.source, id |-> gs.ret])]
             fid == IF file # 0 THEN file ELSE g1.ret
         IN  add_instruction_without_result(g1, ref,
                Ins("OpLine", 0, 0, <<fid, loc.line, loc.column>>))

add_name(g, id, name) ==
    add_instruction_without_result(g, SecRef("debug_b"),
        Ins("OpName", 0, 0, <<id>> \o add_string(name)))

add_member_name(g, id, member_index, name) ==
    add_instruction_without_result(g, SecRef("debug_b"),
        Ins("OpMemberName", 0, 0, <<id, member_index>> \o add_string(name)))

add_builtin(g, id, builtin) ==
    add_instruction_without_result(g, SecRef("annotations"),
        Ins("OpDecorate", 0, 0, <<id, spv_Decoration("BuiltIn"), builtin>>))

add_decoration(g, id, decoration, values) ==
    add_instruction_without_result(g, SecRef("annotations"),
        Ins("OpDecorate", 0, 0, <<id, spv_Decoration(decoration)>> \o values))

add_member_decoration(g, id, member_index, decoration, values) ==
    add_instruction_without_result(g, SecRef("annotations"),
        Ins("OpMemberDecorate", 0, 0,
            <<id, member_index, spv_Decoration(decoration)>> \o values))

-----------------------------------------------------------------------------
(* Types and constants.                                                    *)

\* 0x3f800000, the bits of 1.0f
Float1 == 1065353216

Lanes(s) == [i \in 1..16 |-> IF i <= Len(s) THEN s[i] ELSE 0]
Constant(lanes) == [as_uint |-> Lanes(lanes), array_data |-> <<>>]
ConstantArray(elems) == [as_uint |-> Lanes(<<>>), array_data |-> elems]

\* The predicate of the find_if in convert_type.
type_lookup_match(x, info) ==
    /\ type_eq(x.first, info)
    /\ (~info.is_ptr
        \/ x.first.qualifiers \cap {"static", "uniform"}
            = info.qualifiers \cap {"static", "uniform"})

type_lookup_find(g, info) ==
    LET hit == {i \in 1..Len(g.type_lookup) : type_lookup_match(g.type_lookup[i], info)}
    IN  IF hit = {} THEN 0 ELSE CHOOSE i \in hit : \A j \in hit : i <= j

type_lookup_push_skip(g, info, id) == [g EXCEPT !.ret = id]

\* _type_lookup.push_back({ info, type }); return type;
type_lookup_push(g, info, id) ==
    [g EXCEPT !.type_lookup = Append(@, [first |-> info, second |-> id]), !.ret = id]

\* The storage class convert_type derives for a pointer type.
pointer_storage(info) ==
    IF type_has(info, "uniform")
    THEN (IF type_is_texture(info) \/ type_is_sampler(info)
          THEN "UniformConstant" ELSE "Uniform")
    ELSE IF type_has(info, "static") THEN "Private"
    ELSE IF info.is_output THEN "Output"
    ELSE IF info.is_input THEN "Input"
    ELSE "Function"

\* The predicate of the find_if in emit_constant.
constant_lookup_match(x, type, data) ==
    /\ type_eq(x.type, type)
    /\ x.data.as_uint = data.as_uint
    /\ Len(x.data.array_data) = Len(data.array_data)
    /\ \A i \in 1..Len(data.array_data) :
          x.data.array_data[i].as_uint = data.array_data[i].as_uint

constant_lookup_find(g, type, data) ==
    LET hit == {i \in 1..Len(g.constant_lookup) :
                    constant_lookup_match(g.constant_lookup[i], type, data)}
    IN  IF hit = {} THEN 0 ELSE CHOOSE i \in hit : \A j \in hit : i <= j

constant_lookup_push_skip(g, type, data, id) == [g EXCEPT !.ret = id]

\* _constant_lookup.push_back({ type, data, result }); return result;
constant_lookup_push(g, type, data, id) ==
    [g EXCEPT !.constant_lookup = Append(@, [type |-> type, data |-> data, id |-> id]),
              !.ret = id]

TypesRef == SecRef("types_and_constants")

RECURSIVE convert_type(_, _)
RECURSIVE emit_constant(_, _, _)
RECURSIVE emit_constant_elems(_, _, _, _, _)
RECURSIVE emit_constant_rows(_, _, _, _, _)

\* add_instruction(op, 0, _types_and_constants) with its operands, then the
\* push of the new id into _type_lookup.
add_type(g, info, op, operands) ==
    LET push(g1) == type_lookup_push(g1, info, g1.ret)
    IN  push(add_instruction(g, op, 0, TypesRef, operands))

\* The branches of convert_type; g1 is the generator after the conversion of
\* the element (or pointee) type, whose id is g1.ret.
convert_type_pointer(g1, info) ==
    add_type(g1, info, "OpTypePointer",
             <<spv_StorageClass(pointer_storage(info)), g1.ret>>)

convert_type_array(g1, info) ==
    LET array(g2) == add_type(g2, info, "OpTypeArray", <<g1.ret, g2.ret>>)
    IN  IF info.array_length > 0
        THEN array(emit_constant(g1, Type("uint", 1, 1),
                                 Constant(<<info.array_length>>)))
        ELSE add_type(g1, info, "OpTypeRuntimeArray", <<g1.ret>>)

convert_type_matrix(g1, info) ==
    IF info.rows = 1 THEN type_lookup_push(g1, info, g1.ret)
    ELSE add_type(g1, info, "OpTypeMatrix", <<g1.ret, info.rows>>)

convert_type_vector(g1, info) ==
    add_type(g1, info, "OpTypeVector", <<g1.ret, info.rows>>)

\* What the asserts of the switch over info.base require.
convert_type_asserts(info) ==
    /\ ~info.is_input /\ ~info.is_output
    /\ info.base \in {"bool", "float", "int", "uint"} => info.rows = 1 /\ info.cols = 1
    /\ info.base \in {"void", "struct", "texture", "sampler"} =>
            info.rows = 0 /\ info.cols = 0
    /\ info.base = "struct" => info.definition # 0
    /\ info.base \in {"void", "bool", "float", "int", "uint", "struct", "texture",
                      "sampler"}

\* The switch over info.base.
convert_type_base(g, info) ==
    LET texture(g1) == add_type(g1, info, "OpTypeImage", <<g1.ret, 1, 0, 0, 0, 1, 0>>)
        sampler(g1) == add_type(g1, info, "OpTypeSampledImage", <<g1.ret>>)
    IN
    CASE info.base = "void" -> add_type(g, info, "OpTypeVoid", <<>>)
      [] info.base = "bool" -> add_type(g, info, "OpTypeBool", <<>>)
      [] info.base = "float" -> add_type(g, info, "OpTypeFloat", <<32>>)
      [] info.base = "int" -> add_type(g, info, "OpTypeInt", <<32, 1>>)
      [] info.base = "uint" -> add_type(g, info, "OpTypeInt", <<32, 0>>)
      [] info.base = "struct" -> type_lookup_push(g, info, info.definition)
      [] info.base = "texture" ->
            texture(convert_type(g, Type("float", 1, 1)))
      [] info.base = "sampler" ->
            sampler(convert_type(g, [Type("texture", 0, 0) EXCEPT
                                        !.qualifiers = {"uniform"}]))
      [] OTHER -> [g EXCEPT !.ret = 0]

\* spv::Id convert_type(const type &info)
convert_type(g, info) ==
    LET hit == type_lookup_find(g, info) IN
    IF hit # 0 THEN [g EXCEPT !.ret = g.type_lookup[hit].second]
    ELSE IF info.is_ptr THEN
        convert_type_pointer(
            convert_type(g, [info EXCEPT !.is_input = FALSE,
                                         !.is_output = FALSE, !.is_ptr = FALSE]), info)
    ELSE IF type_is_array(info) THEN
        convert_type_array(convert_type(g, [info EXCEPT !.array_length = 0]), info)
    ELSE IF type_is_matrix(info) THEN
        convert_type_matrix(
            convert_type(g, [info EXCEPT !.rows = info.cols, !.cols = 1]), info)
    ELSE IF type_is_vector(info) THEN
        convert_type_vector(convert_type(g, [info EXCEPT !.rows = 1, !.cols = 1]), info)
    ELSE convert_type_base(assert(g, convert_type_asserts(info)), info)

\* add_instruction(op, convert_type(type), _types_and_constants) with its
\* operands, then the push of the new id into _constant_lookup; g1 is the
\* generator after convert_type(type).
add_constant(g1, type, data, op, operands) ==
    LET push(g2) == constant_lookup_push(g2, type, data, g2.ret)
    IN  push(add_instruction(g1, op, g1.ret, TypesRef, operands))

\* The loops of emit_constant over the elements of an array literal (and the
\* padding with zero constants up to the array length): ids in g.ret.
emit_constant_elems(g, elem_type, data, i, acc) ==
    LET next(g1) == emit_constant_elems(g1, elem_type, data, i + 1, Append(acc, g1.ret))
    IN  IF i > Max(Len(data.array_data), elem_type.array_length_of)
        THEN [g EXCEPT !.ret = acc]
        ELSE next(emit_constant(g, elem_type.type,
                                IF i <= Len(data.array_data) THEN data.array_data[i]
                                ELSE Constant(<<>>)))

\* The loops of emit_constant over the rows of a matrix or the components of a
\* vector: row i takes `width` lanes starting at lane i * width.
emit_constant_rows(g, row, data, i, acc) ==
    LET next(g1) == emit_constant_rows(g1, row, data, i + 1, Append(acc, g1.ret))
    IN  IF i >= row.count THEN [g EXCEPT !.ret = acc]
        ELSE next(emit_constant(g, row.type,
                    Constant([k \in 1..row.width |-> data.as_uint[i * row.width + k]])))

\* g1 is the generator after the loop, the ids of the constituents in g1.ret.
emit_constant_composite(g1, type, data) ==
    add_constant(convert_type(g1, type), type, data, "OpConstantComposite", g1.ret)

emit_constant_matrix(g1, type, data) ==
    IF type.rows = 1 THEN constant_lookup_push(g1, type, data, g1.ret[1])
    ELSE emit_constant_composite(g1, type, data)

\* id emit_constant(const type &type, const constant &data)
emit_constant(g0, type, data) ==
    LET g == assert(g0, ~type.is_ptr)
        hit == constant_lookup_find(g0, type, data) IN
    IF hit # 0 THEN [g EXCEPT !.ret = g0.constant_lookup[hit].id]
    ELSE IF type_is_array(type) THEN
        emit_constant_composite(
            emit_constant_elems(assert(g, type.array_length > 0),
                [type |-> [type EXCEPT !.array_length = 0],
                 array_length_of |-> type.array_length], data, 1, <<>>),
            type, data)
    ELSE IF type_is_struct(type) THEN
        add_constant(convert_type(g, type), type, data, "OpConstantNull", <<>>)
    ELSE IF type_is_matrix(type) THEN
        emit_constant_matrix(
            emit_constant_rows(g,
                [type |-> [type EXCEPT !.rows = type.cols, !.cols = 1],
                 count |-> type.rows, width |-> type.cols], data, 0, <<>>),
            type, data)
    ELSE IF type_is_vector(type) THEN
        emit_constant_composite(
            emit_constant_rows(g,
                [type |-> [type EXCEPT !.rows = 1],
                 count |-> type.rows, width |-> 1], data, 0, <<>>),
            type, data)
    ELSE IF type_is_boolean(type) THEN
        add_constant(convert_type(g, type), type, data,
            IF data.as_uint[1] # 0 THEN "OpConstantTrue" ELSE "OpConstantFalse", <<>>)
    ELSE
        add_constant(convert_type(assert(g, type_is_scalar(type)), type), type, data,
                     "OpConstant", <<data.as_uint[1]>>)

-----------------------------------------------------------------------------
(* Definitions of entities.                                                *)

\* The block define_variable writes to, by storage class.
variable_block(g, storage) ==
    IF storage # "Function" THEN SecRef("variables")
    ELSE FnRef("variables", g.current_function + 1)

\* define_variable(id, loc, type, name, storage, initializer_value)
define_variable_id(g, id, loc, type, name, storage, initializer_value) ==
    LET named(g3) == IF name # <<>> THEN add_name(g3, id, name) ELSE g3
        variable(g2) ==
            named(add_instruction_without_result(g2, variable_block(g, storage),
                    Ins("OpVariable", g2.ret, id,
                        <<spv_StorageClass(storage)>>
                        \o (IF initializer_value # 0 THEN <<initializer_value>>
                            ELSE <<>>))))
    IN  variable(convert_type(add_location(assert(g, type.is_ptr), loc,
                                           variable_block(g, storage)), type))

\* The loop of define_struct over the members.  `at` is the place of the
\* OpTypeStruct the reference `instruction` was taken to.  A conversion that
\* appends to the same vector may move its storage; the reference then
\* dangles and the operand is written through it: ub names what the build
\* makes of that ("intact": the storage did not move, "stale": the write is
\* lost, "crash": the process dies).
RECURSIVE define_struct_members(_, _, _, _, _)

\* add(g1) is instruction.add(convert_type(member.type)) on the generator g1
\* the conversion leaves.
define_struct_members(g, member_list, at, ub, i) ==
    LET add(g1) ==
            IF Len(g1.types_and_constants) <= at \/ ub = "intact"
            THEN define_struct_members(
                    [g1 EXCEPT !.types_and_constants[at].operands = Append(@, g1.ret)],
                    member_list, at, ub, i + 1)
            ELSE IF ub = "stale"
            THEN define_struct_members(g1, member_list, at, ub, i + 1)
            ELSE [g1 EXCEPT !.aborted = "crash"]
    IN  IF i > Len(member_list) THEN g
        ELSE add(convert_type(g, member_list[i].type))

RECURSIVE add_member_names(_, _, _, _)
add_member_names(g, definition, member_list, index) ==
    IF index >= Len(member_list) THEN g
    ELSE add_member_names(
            add_member_name(g, definition, index, member_list[index + 1].name),
            definition, member_list, index + 1)

\* id define_struct(const location &loc, struct_info &info): members(g2)
\* is the loop over the members after the OpTypeStruct has been appended,
\* names(g3) the names added after the loop.
define_struct(g, loc, info, ub) ==
    LET names(g3) ==
            IF g3.aborted # "" THEN g3
            ELSE [add_member_names(
                    IF info.unique_name # <<>>
                    THEN add_name(g3, info.definition, info.unique_name) ELSE g3,
                    info.definition, info.member_list, 0)
                  EXCEPT !.ret = info.definition]
        members(g2) ==
            names(define_struct_members(g2, info.member_list,
                                        Len(g2.types_and_constants), ub, 1))
    IN  members(add_instruction_without_result(
                    add_location([g EXCEPT !.structs = Append(@, info)], loc, TypesRef),
                    TypesRef, Ins("OpTypeStruct", 0, info.definition, <<>>)))

\* id define_texture(const location &, texture_info &info)
define_texture(g, info) ==
    [g EXCEPT !.textures = Append(@, info), !.ret = info.id]

\* id define_sampler(const location &loc, sampler_info &info)
define_sampler(g, loc, info) ==
    LET info1 == [info EXCEPT !.set = 1, !.binding = g.current_sampler_binding]
        g0 == [g EXCEPT !.current_sampler_binding = @ + 1]
        g1 == define_variable_id(g0, info.id, loc,
                [Type("sampler", 0, 0) EXCEPT !.qualifiers = {"extern", "uniform"},
                                              !.is_ptr = TRUE],
                info.unique_name, "UniformConstant", 0)
        g2 == add_decoration(g1, info.id, "Binding", <<info1.binding>>)
        g3 == add_decoration(g2, info.id, "DescriptorSet", <<info1.set>>)
    IN  [g3 EXCEPT !.samplers = Append(@, info1), !.ret = info.id]

\* The size define_uniform computes (and uses as the alignment).
uniform_size(type) ==
    4 * (IF type.rows = 3 THEN 4 ELSE type.rows) * type.cols * Max(1, type.array_length)

\* uniform_info::size as the frontend hands it to the linker.
uniform_info_size(type) ==
    4 * (IF type.rows = 3 THEN 4 ELSE type.rows) * type.cols * Max(1, type.array_length)

\* id define_uniform(const location &, uniform_info &info)
define_uniform(g, info) ==
    LET ga == IF g.global_ubo_type = 0
              THEN [make_id(g) EXCEPT !.global_ubo_type = g.next_id] ELSE g
        gb == IF ga.global_ubo_variable = 0
              THEN [make_id(ga) EXCEPT !.global_ubo_variable = ga.next_id] ELSE ga
        size == uniform_size(info.type)
        alignment == size
        offset == align(gb.global_ubo_offset, alignment)
        info1 == [info EXCEPT !.offset = offset,
                              !.member_index = Len(gb.uniforms),
                              !.struct_type_id = gb.global_ubo_type]
        gc == [gb EXCEPT !.global_ubo_offset = offset + size,
                         !.uniforms = Append(@, info1)]
        gd == add_member_decoration(gc, gc.global_ubo_type, info1.member_index,
                                    "Offset", <<offset>>)
    IN  [gd EXCEPT !.ret = gd.global_ubo_variable]

\* The struct_info create_global_ubo builds from the uniforms.
global_ubo_struct_info(g) ==
    [definition |-> g.global_ubo_type, unique_name |-> <<>>,
     member_list |-> [i \in 1..Len(g.uniforms) |->
                        [type |-> g.uniforms[i].type, name |-> g.uniforms[i].name,
                         semantic |-> <<>>]]]

\* The decorations and the variable of create_global_ubo; g1 is the generator
\* after define_struct.
create_global_ubo_variable(g1, global_ubo_type, global_ubo_variable) ==
    IF g1.aborted # "" THEN g1
    ELSE define_variable_id(
            add_decoration(
                add_decoration(
                    add_decoration(g1, global_ubo_type, "Block", <<>>),
                    global_ubo_type, "Binding", <<0>>),
                global_ubo_type, "DescriptorSet", <<0>>),
            global_ubo_variable, NoLocation,
            [Type("struct", 0, 0) EXCEPT !.qualifiers = {"uniform"}, !.is_ptr = TRUE,
                                         !.definition = global_ubo_type],
            Chars("$Globals"), "Uniform", 0)

\* void create_global_ubo()
create_global_ubo(g, ub) ==
    create_global_ubo_variable(
        define_struct(g, NoLocation, global_ubo_struct_info(g), ub),
        g.global_ubo_type, g.global_ubo_variable)

-----------------------------------------------------------------------------
(* Functions, basic blocks and the instructions of a function body.        *)

\* add_instruction(op, type) and add_instruction_without_result(op): the
\* overloads that assert and write to *_current_block_data.
add_instruction_in_block(g, op, type, operands) ==
    add_instruction(assert(g, is_in_function(g) /\ is_in_block(g)), op, type,
                    g.current_block_data, operands)

add_instruction_without_result_in_block(g, ins) ==
    add_instruction_without_result(assert(g, is_in_function(g) /\ is_in_block(g)),
                                   g.current_block_data, ins)

\* function_blocks as emplace_back constructs it.
function_blocks(ret_type) ==
    [declaration |-> <<>>, variables |-> <<>>, definition |-> <<>>,
     return_type |-> ret_type, param_types |-> <<>>]

\* void enter_function(id id, const type &ret_type)
enter_function(g, id, ret_type) ==
    LET function(g2) ==
            [g2 EXCEPT !.functions2[g2.current_function + 1].declaration =
                            Append(@, Ins("OpFunction", g2.ret, id, <<0>>))]
    IN  function(convert_type(
                    [g EXCEPT !.functions2 = Append(@, function_blocks(ret_type)),
                              !.current_function = Len(g.functions2)], ret_type))

\* operator==(const function_blocks &, const function_blocks &)
function_blocks_eq(lhs, rhs) ==
    /\ Len(lhs.param_types) = Len(rhs.param_types)
    /\ \A i \in 1..Len(lhs.param_types) : type_eq(lhs.param_types[i], rhs.param_types[i])
    /\ type_eq(lhs.return_type, rhs.return_type)

\* The loop of convert_type(function_blocks) over the parameter types: the
\* ids in g.ret.
RECURSIVE convert_param_types(_, _, _, _)
convert_param_types(g, types, i, acc) ==
    LET next(g1) == convert_param_types(g1, types, i + 1, Append(acc, g1.ret))
    IN  IF i > Len(types) THEN [g EXCEPT !.ret = acc]
        ELSE next(convert_type(g, types[i]))

\* spv::Id convert_type(const function_blocks &info): params(g1) converts
\* the parameter types after the return type, function(g2, return_type) adds
\* the OpTypeFunction, push(g3) pushes it into _function_type_lookup.
convert_function_type(g, info) ==
    LET hit == {i \in 1..Len(g.function_type_lookup) :
                    function_blocks_eq(g.function_type_lookup[i].first, info)}
        push(g3) ==
            [g3 EXCEPT !.function_type_lookup =
                            Append(@, [first |-> info, second |-> g3.ret])]
        function(g2, return_type) ==
            push(add_instruction(g2, "OpTypeFunction", 0, TypesRef,
                                 <<return_type>> \o g2.ret))
        params(g1) ==
            function(convert_param_types(assert(g1, g1.ret # 0), info.param_types,
                                         1, <<>>),
                     g1.ret)
    IN  IF hit # {}
        THEN [g EXCEPT !.ret = g.function_type_lookup[
                                    CHOOSE i \in hit : \A j \in hit : i <= j].second]
        ELSE params(convert_type(g, info.return_type))

\* void leave_function(), called inside a function: type(g2) is
\* function.declaration.instructions[0].add(convert_type(function)) on the
\* generator the conversion leaves.
leave_function(g) ==
    LET type(g2) ==
            [g2 EXCEPT !.functions2[g.current_function + 1].declaration[1].operands =
                            Append(@, g2.ret),
                       !.current_function = -1]
    IN  type(convert_function_type(
                add_instruction_without_result(assert(g, is_in_function(g)),
                    FnRef("definition", g.current_function + 1),
                    Ins("OpFunctionEnd", 0, 0, <<>>)),
                g.functions2[g.current_function + 1]))

\* void set_block(id id)
set_block(g, id) ==
    [g EXCEPT !.current_block = id, !.current_block_data = BlkRef(id)]

\* void enter_block(id id)
enter_block(g, id) ==
    add_instruction_without_result_in_block(
        [assert(g, is_in_function(g) /\ ~is_in_block(g)) EXCEPT
            !.current_block = id,
            !.current_block_data = FnRef("definition", g.current_function + 1)],
        Ins("OpLabel", 0, id, <<>>))

\* _last_block = _current_block; _current_block = 0;
leave_block(g) == [g EXCEPT !.last_block = g.current_block, !.current_block = 0]

\* The leave_block_and_* that add one instruction: the assert, the early
\* return outside of a block, the terminator, and the block is left.
leave_block_and(g, ins) ==
    IF ~is_in_block(g) THEN assert(g, is_in_function(g))
    ELSE leave_block(
            add_instruction_without_result_in_block(assert(g, is_in_function(g)), ins))

\* void leave_block_and_kill()
leave_block_and_kill(g) == leave_block_and(g, Ins("OpKill", 0, 0, <<>>))

\* void leave_block_and_return(id value): undef(g1) adds the OpUndef after
\* convert_type of the return type, return(g2) the OpReturnValue of the
\* value, or of the OpUndef whose id is g2.ret.
leave_block_and_return(g, value) ==
    LET return(g2) ==
            leave_block(add_instruction_without_result_in_block(g2,
                Ins("OpReturnValue", 0, 0, <<IF value = 0 THEN g2.ret ELSE value>>)))
        undef(g1) == add_instruction(g1, "OpUndef", g1.ret, TypesRef, <<>>)
    IN  IF ~is_in_block(g) THEN assert(g, is_in_function(g))
        ELSE IF type_is_void(g.functions2[g.current_function + 1].return_type)
        THEN leave_block_and(g, Ins("OpReturn", 0, 0, <<>>))
        ELSE return(IF value = 0
                    THEN undef(convert_type(
                                assert(g, is_in_function(g)),
                                g.functions2[g.current_function + 1].return_type))
                    ELSE assert(g, is_in_function(g)))

\* void leave_block_and_switch(id value)
leave_block_and_switch(g, value) ==
    leave_block_and(g, Ins("OpSwitch", 0, 0, <<value>>))

\* void leave_block_and_branch(id target)
leave_block_and_branch(g, target) ==
    leave_block_and(g, Ins("OpBranch", 0, 0, <<target>>))

\* void leave_block_and_branch_conditional(id condition, id true_target,
\* id false_target)
leave_block_and_branch_conditional(g, condition, true_target, false_target) ==
    leave_block_and(g, Ins("OpBranchConditional", 0, 0,
                           <<condition, true_target, false_target>>))

\* The switch of emit_unary_op over the token; any other token reaches the
\* default.
unary_spv_op(op, type) ==
    CASE op = "exclaim" -> "OpLogicalNot"
      [] op = "minus" -> IF type_is_floating_point(type) THEN "OpFNegate" ELSE "OpSNegate"
      [] op = "tilde" -> "OpNot"
      [] op = "plus_plus" -> IF type_is_floating_point(type) THEN "OpFAdd" ELSE "OpIAdd"
      [] op = "minus_minus" -> IF type_is_floating_point(type) THEN "OpFSub" ELSE "OpISub"
      [] OTHER -> "OpNop"

\* id emit_unary_op(const location &loc, tokenid op, const type &type, id val)
emit_unary_op(g, loc, op, type, val) ==
    LET result(g1) ==
            add_instruction_in_block(g1, unary_spv_op(op, type), g1.ret, <<val>>)
    IN  IF unary_spv_op(op, type) = "OpNop" THEN [assert(g, FALSE) EXCEPT !.ret = 0]
        ELSE result(convert_type(add_location(g, loc, g.current_block_data), type))

\* The switch of emit_binary_op over the token, for the tokens the model
\* uses; any other token reaches the default.
binary_spv_op(op, type) ==
    CASE op = "plus" -> IF type_is_floating_point(type) THEN "OpFAdd" ELSE "OpIAdd"
      [] op = "star" -> IF type_is_floating_point(type) THEN "OpFMul" ELSE "OpIMul"
      [] op = "less" -> IF type_is_floating_point(type) THEN "OpFOrdLessThan"
                        ELSE IF type_is_signed(type) THEN "OpSLessThan"
                        ELSE "OpULessThan"
      [] op = "ampersand_ampersand" -> "OpLogicalAnd"
      [] OTHER -> "OpNop"

\* id emit_binary_op(const location &loc, tokenid op, const type &res_type,
\* const type &type, id lhs, id rhs)
emit_binary_op(g, loc, op, res_type, type, lhs, rhs) ==
    LET decorate(g2) ==
            IF type_has(res_type, "precise")
            THEN [add_decoration(g2, g2.ret, "NoContraction", <<>>) EXCEPT !.ret = g2.ret]
            ELSE g2
        result(g1) ==
            decorate(add_instruction_in_block(g1, binary_spv_op(op, type), g1.ret,
                                              <<lhs, rhs>>))
    IN  IF binary_spv_op(op, type) = "OpNop" THEN [assert(g, FALSE) EXCEPT !.ret = 0]
        ELSE result(convert_type(add_location(g, loc, g.current_block_data), res_type))

\* void emit_if(const location &loc, id, id prev_block, id true_statement_block,
\* id false_statement_block, id merge_label, unsigned int flags)
emit_if(g, merge_label, selection_control) ==
    add_instruction_without_result_in_block(g,
        Ins("OpSelectionMerge", 0, 0, <<merge_label, selection_control>>))

\* void emit_switch(const location &loc, id, id prev_block, id default_label,
\* const std::vector<id> &case_literal_and_labels, id merge_label,
\* unsigned int flags): every statement of the body is a comment.
emit_switch(g, prev_block, default_label, case_literal_and_labels, merge_label) == g

-----------------------------------------------------------------------------
(* Entry points.                                                           *)

\* id define_function(const location &, function_info &info)
define_function(g, loc, info) ==
    [(IF info.name # <<>>
      THEN add_name([g EXCEPT !.functions = Append(@, info)], info.definition, info.name)
      ELSE [g EXCEPT !.functions = Append(@, info)])
     EXCEPT !.ret = info.definition]

\* id emit_call(const location &loc, id function, const type &res_type,
\* const std::vector<expression> &args); args holds the base of each argument.
emit_call(g, loc, function, res_type, args) ==
    LET call(g1) == add_instruction_in_block(g1, "OpFunctionCall", g1.ret,
                                             <<function>> \o args)
    IN  call(convert_type(add_location(g, loc, g.current_block_data), res_type))

-----------------------------------------------------------------------------
(* Access chains: emit_load and emit_store.                                *)

\* type::components()
components(t) == t.rows * t.cols

type_is_integral(t) == t.base \in {"int", "uint"}

\* The leading entries of a swizzle that are not negative.
RECURSIVE swizzle_components(_)
swizzle_components(swizzle) ==
    IF swizzle = <<>> \/ Head(swizzle) < 0 THEN <<>>
    ELSE <<Head(swizzle)>> \o swizzle_components(Tail(swizzle))

\* chain.ops[i], std::vector::operator[]: behind the end of the vector the
\* behaviour is undefined, and a read that does not crash yields whatever
\* operation ub.op the memory holds there.
ops_at(chain, i, ub) ==
    IF i < Len(chain.ops) THEN chain.ops[i + 1] ELSE ub.op

\* The do-while of emit_load and emit_store over the indexes of the access
\* chain, from position op_index2: the indexes and the last type in ret.
RECURSIVE access_chain_indexes(_, _, _, _, _)
access_chain_indexes(g, chain, op_index2, indexes, ub) ==
    LET more(g1, op) ==
            IF /\ op_index2 + 1 < Len(chain.ops)
               /\ chain.ops[op_index2 + 2].type = "op_index"
            THEN access_chain_indexes(g1, chain, op_index2 + 1,
                                      Append(indexes, op.index), ub)
            ELSE [g1 EXCEPT !.op_index2 = op_index2 + 1,
                            !.ret = [indexes |-> Append(indexes, op.index),
                                     base_type |-> op.to]]
        read(op) == more(assert(g, op.to.is_ptr), op)
    IN  IF op_index2 >= Len(chain.ops) /\ ub.outcome = "crash"
        THEN [g EXCEPT !.aborted = IF @ = "" THEN "crash" ELSE @,
                       !.op_index2 = op_index2,
                       !.ret = [indexes |-> indexes, base_type |-> chain.type]]
        ELSE read(ops_at(chain, op_index2, ub))

\* The OpAccessChain of emit_load and emit_store for a chain that begins
\* with an index: the instruction is added first and gets its indexes and
\* its type afterwards; its id and the type it points to in ret.
emit_access_chain(g, chain, ub) ==
    LET node == g.next_id
        add(g1, indexes, base_type) ==
            [add_instruction_without_result(g1, g.current_block_data,
                Ins("OpAccessChain", g1.ret, node, <<chain.base>> \o indexes))
             EXCEPT !.ret = [result |-> node, base_type |-> base_type]]
        typed(g1) == add(convert_type(g1, g1.ret.base_type), g1.ret.indexes,
                         g1.ret.base_type)
    IN  typed(access_chain_indexes(
            [assert(assert(g, chain.ops[1].to.is_ptr),
                    is_in_function(g) /\ is_in_block(g))
             EXCEPT !.next_id = @ + 1],
            chain,
            IF chain.ops[1].from.rows = 1 /\ chain.ops[1].from.cols > 1 THEN 1 ELSE 0,
            <<>>, ub))

\* The target of emit_load and emit_store and its type, in ret: the access
\* chain when the chain begins with an index, else the base.
chain_target(g, chain, ub) ==
    IF chain.ops # <<>> /\ chain.ops[1].type = "op_index"
    THEN emit_access_chain(g, chain, ub)
    ELSE [g EXCEPT !.ret = [result |-> chain.base,
                            base_type |-> IF chain.ops # <<>> THEN chain.ops[1].from
                                          ELSE chain.type]]

\* One pass of the loop of emit_load over the operations that remain: the
\* value after the operation in ret.
emit_load_op(g, chain, op, result) ==
    LET from_with_to_base == [op.from EXCEPT !.base = op.to.base]
        true_value ==
            Constant([i \in 1..components(op.to) |->
                        IF type_is_floating_point(op.to) THEN Float1 ELSE 1])
        \* add_instruction(op, convert_type(type)).add(...) on g1
        instruction(g1, spv_op, type, operands) ==
            LET add(g2) == add_instruction_in_block(g2, spv_op, g2.ret, operands)
            IN  add(convert_type(g1, type))
        select(g1) ==
            LET false_constant(g2, true_constant) ==
                    LET add(g3) == instruction(g3, "OpSelect", from_with_to_base,
                                               <<result, true_constant, g3.ret>>)
                    IN  add(emit_constant(g2, from_with_to_base, Constant(<<>>)))
                true_constant(g2) == false_constant(g2, g2.ret)
            IN  true_constant(emit_constant(g1, from_with_to_base, true_value))
        \* the constant is emitted after the instruction was added
        not_equal(g1) ==
            LET node == g1.next_id
                add(g2, type) ==
                    add_instruction_without_result(g2, g.current_block_data,
                        Ins(IF type_is_floating_point(op.from) THEN "OpFOrdNotEqual"
                            ELSE "OpINotEqual", type, node, <<result, g2.ret>>))
                zero(g2) ==
                    [add(emit_constant(
                            [assert(g2, is_in_function(g2) /\ is_in_block(g2))
                             EXCEPT !.next_id = @ + 1],
                            op.from, Constant(<<>>)), g2.ret)
                     EXCEPT !.ret = node]
            IN  zero(convert_type(g1, from_with_to_base))
        converted(g1) ==
            IF op.from.base = op.to.base THEN [g1 EXCEPT !.ret = result]
            ELSE IF type_is_boolean(op.from) THEN select(g1)
            ELSE CASE op.to.base = "bool" -> not_equal(g1)
                   [] op.to.base = "int" ->
                        instruction(g1, IF type_is_floating_point(op.from)
                                        THEN "OpConvertFToS" ELSE "OpBitcast",
                                    from_with_to_base, <<result>>)
                   [] op.to.base = "uint" ->
                        instruction(g1, IF type_is_floating_point(op.from)
                                        THEN "OpConvertFToU" ELSE "OpBitcast",
                                    from_with_to_base, <<result>>)
                   [] op.to.base = "float" ->
                        instruction(assert(g1, type_is_integral(op.from)),
                                    IF type_is_signed(op.from)
                                    THEN "OpConvertSToF" ELSE "OpConvertUToF",
                                    from_with_to_base, <<result>>)
                   [] OTHER -> [g1 EXCEPT !.ret = result]
        resized(g1) ==
            IF components(op.to) > components(op.from)
            THEN instruction(g1, "OpCompositeConstruct", op.to,
                             [i \in 1..components(op.to) |-> g1.ret])
            ELSE IF components(op.from) > components(op.to)
            THEN assert(g1, FALSE)
            ELSE g1
        cast == resized(converted(assert(g, ~op.to.is_ptr)))
        index ==
            IF type_is_array(op.from) THEN [assert(g, FALSE) EXCEPT !.ret = result]
            ELSE IF type_is_vector(op.from) /\ type_is_scalar(op.to)
            THEN instruction(assert(g, result # 0), "OpVectorExtractDynamic",
                             [op.to EXCEPT !.is_ptr = FALSE], <<result, op.index>>)
            ELSE [assert(g, FALSE) EXCEPT !.ret = result]
        row(i) == op.swizzle[i] \div 4
        column(i) == op.swizzle[i] - row(i) * 4
        picked == swizzle_components(op.swizzle)
        \* the first loop of the swizzle of a matrix: the ids in ret
        extract[i \in 1..(Len(picked) + 1)] ==
            IF i = 1 THEN [g EXCEPT !.ret = <<>>]
            ELSE LET component(g1, g2) == [g2 EXCEPT !.ret = Append(g1.ret, g2.ret)]
                     add(g1) ==
                        component(g1,
                            instruction(assert(g1, result # 0), "OpCompositeExtract",
                                        [op.to EXCEPT !.rows = 1, !.cols = 1],
                                        <<result>>
                                        \o (IF op.from.rows > 1 THEN <<row(i - 1)>>
                                            ELSE <<>>)
                                        \o <<column(i - 1)>>))
                 IN  add(extract[i - 1])
        construct(g1) == instruction(g1, "OpCompositeConstruct", op.to, g1.ret)
        swizzle ==
            IF type_is_vector(op.to)
            THEN IF type_is_matrix(op.from) THEN construct(extract[Len(picked) + 1])
                 ELSE instruction(assert(g, type_is_vector(op.from)), "OpVectorShuffle",
                                  op.to, <<result, result>> \o picked)
            ELSE IF type_is_scalar(op.to)
            THEN instruction(assert(assert(g, op.swizzle[2] < 0), result # 0),
                             "OpCompositeExtract", op.to,
                             <<result>>
                             \o (IF type_is_matrix(op.from) /\ op.from.rows > 1
                                 THEN <<row(1), column(1)>> ELSE <<op.swizzle[1]>>))
            ELSE [assert(g, FALSE) EXCEPT !.ret = result]
    IN  CASE op.type = "op_cast" -> cast
          [] op.type = "op_index" -> index
          [] op.type = "op_swizzle" -> swizzle
          [] OTHER -> [g EXCEPT !.ret = result]

\* id emit_load(const expression &chain)
emit_load(g, chain, ub) ==
    LET RECURSIVE remaining(_)
        remaining(g1) ==
            LET next(g2) == remaining([g2 EXCEPT !.op_index2 = @ + 1])
            IN  IF g1.op_index2 >= Len(chain.ops) THEN g1
                ELSE next(emit_load_op(g1, chain, chain.ops[g1.op_index2 + 1], g1.ret))
        load(g1, pointer) == add_instruction_in_block(g1, "OpLoad", g1.ret, <<pointer>>)
        loaded(g1) == load(convert_type(g1, [g1.ret.base_type EXCEPT !.is_ptr = FALSE]),
                           g1.ret.result)
        value(g1) == IF chain.is_lvalue THEN loaded(chain_target(g1, chain, ub))
                     ELSE [g1 EXCEPT !.ret = chain.base]
        located == add_location(g, chain.location, g.current_block_data)
    IN  IF chain.is_constant THEN emit_constant(located, chain.type, chain.constant)
        ELSE remaining(value([located EXCEPT !.op_index2 = 0]))

\* One pass of the loop of emit_store over the operations that remain: the
\* value to store after the operation in ret.value.
emit_store_op(g, op, value_type) ==
    LET target == g.ret.result
        value == g.ret.value
        base_type == [g.ret.base_type EXCEPT !.is_ptr = FALSE]
        kept(g1, v) == [g1 EXCEPT !.ret = [result |-> target, value |-> v,
                                           base_type |-> base_type]]
        shuffle == [k \in 1..4 |->
                     LET set == {i \in 0..(base_type.rows - 1) : op.swizzle[i + 1] = k - 1}
                     IN  IF set = {} THEN k - 1
                         ELSE base_type.rows + CHOOSE i \in set : \A j \in set : j <= i]
        instruction(g1, spv_op, operands) ==
            LET add(g2) == add_instruction_in_block(g2, spv_op, g2.ret, operands)
            IN  add(convert_type(g1, base_type))
        stored(g1, result) ==
            IF type_is_vector(base_type) /\ type_is_vector(value_type)
            THEN instruction(g1, "OpVectorShuffle",
                             <<result, value>> \o SubSeq(shuffle, 1, base_type.rows))
            ELSE IF type_is_scalar(op.to)
            THEN instruction(assert(g1, op.swizzle[2] < 0), "OpCompositeInsert",
                             <<value, result, op.swizzle[1]>>)
            ELSE [assert(g1, FALSE) EXCEPT !.ret = value]
        loaded(g1) == kept(stored(g1, g1.ret), stored(g1, g1.ret).ret)
    IN  CASE op.type = "op_swizzle" ->
                loaded(instruction(g, "OpLoad", <<target>>))
          [] OTHER -> kept(assert(g, FALSE), value)

\* void emit_store(const expression &chain, id value, const type &value_type)
emit_store(g, chain, value, value_type, ub) ==
    LET RECURSIVE remaining(_)
        remaining(g1) ==
            LET next(g2) == remaining([g2 EXCEPT !.op_index2 = @ + 1])
            IN  IF g1.op_index2 >= Len(chain.ops) THEN g1
                ELSE next(emit_store_op(g1, chain.ops[g1.op_index2 + 1], value_type))
        store(g1) ==
            [add_instruction_without_result_in_block(g1,
                Ins("OpStore", 0, 0, <<g1.ret.result, g1.ret.value>>))
             EXCEPT !.ret = 0]
        valued(g1) == [g1 EXCEPT !.ret = [result |-> g1.ret.result, value |-> value,
                                          base_type |-> g1.ret.base_type]]
        checked == assert(assert(assert(g, value # 0),
                                 chain.is_lvalue /\ ~chain.is_constant),
                          ~value_type.is_ptr)
    IN  store(remaining(valued(chain_target(
            [add_location(checked, chain.location, g.current_block_data)
             EXCEPT !.op_index2 = 0],
            chain, ub))))

-----------------------------------------------------------------------------
(* Entry points.                                                           *)

\* The lambda semantic_to_builtin of create_entry_point: the builtin, or
\* "Max" where the lambda returns false.
semantic_to_builtin(semantic, is_ps) ==
    CASE semantic = Chars("SV_POSITION") -> IF is_ps THEN "FragCoord" ELSE "Position"
      [] semantic = Chars("SV_POINTSIZE") -> "PointSize"
      [] semantic = Chars("SV_DEPTH") -> "FragDepth"
      [] semantic \in {Chars("VERTEXID"), Chars("SV_VERTEXID")} -> "VertexId"
      [] OTHER -> "Max"

\* semantic.size() >= n && semantic.compare(0, n, prefix) == 0
has_prefix(semantic, prefix) ==
    Len(semantic) >= Len(prefix) /\ SubSeq(semantic, 1, Len(prefix)) = prefix

\* std::strtol(s, nullptr, 10) on the rest of a semantic, which is made of
\* the bytes of an identifier: the digits up to the first byte that is none,
\* 0 when there is no digit.
RECURSIVE strtol_digits(_, _, _)
strtol_digits(s, i, acc) ==
    IF i > Len(s) \/ s[i] \notin 48..57 THEN acc
    ELSE strtol_digits(s, i + 1, acc * 10 + (s[i] - 48))

strtol(s) == strtol_digits(s, 1, 0)

semantic_to_location_find_none(g, semantic) == {}

\* _semantic_to_location.find(semantic): the places of the entries with the
\* key, none or one.
semantic_to_location_find(g, semantic) ==
    {i \in 1..Len(g.semantic_to_location) : g.semantic_to_location[i].key = semantic}

\* The location create_entry_point gives a semantic that is no builtin, in
\* ret: the same statements stand in create_input_variable, in
\* create_output_variable and in the handling of the return value.
semantic_location(g, semantic) ==
    IF has_prefix(semantic, Chars("COLOR"))
    THEN [g EXCEPT !.ret = strtol(SubSeq(semantic, 6, Len(semantic)))]
    ELSE IF has_prefix(semantic, Chars("SV_TARGET"))
    THEN [g EXCEPT !.ret = strtol(SubSeq(semantic, 10, Len(semantic)))]
    ELSE IF has_prefix(semantic, Chars("TEXCOORD"))
    THEN [g EXCEPT !.ret = strtol(SubSeq(semantic, 9, Len(semantic)))]
    ELSE IF semantic_to_location_find(g, semantic) # {}
    THEN [g EXCEPT !.ret = g.semantic_to_location[
                        CHOOSE i \in semantic_to_location_find(g, semantic) : TRUE].value]
    ELSE [g EXCEPT !.semantic_to_location =
                        Append(@, [key |-> semantic,
                                   value |-> g.current_semantic_location]),
                   !.ret = g.current_semantic_location,
                   !.current_semantic_location = @ + 1]

\* add_builtin for a builtin semantic, else the Location decoration.
decorate_semantic(g, variable, semantic, is_ps) ==
    LET decorate(g1) == add_decoration(g1, variable, "Location", <<g1.ret>>)
    IN  IF semantic_to_builtin(semantic, is_ps) # "Max"
        THEN add_builtin(g, variable, spv_BuiltIn(semantic_to_builtin(semantic, is_ps)))
        ELSE decorate(semantic_location(g, semantic))

\* The decorations create_input_variable and create_output_variable add for
\* the interpolation qualifiers.
decorate_interpolation(g, variable, type) ==
    LET decorate(g1, q, decoration) ==
            IF type_has(type, q) THEN add_decoration(g1, variable, decoration, <<>>)
            ELSE g1
    IN  decorate(decorate(decorate(g, "noperspective", "NoPerspective"),
                          "centroid", "Centroid"),
                 "nointerpolation", "Flat")

\* The lambdas create_input_variable (storage "Input") and
\* create_output_variable (storage "Output") of create_entry_point.
create_interface_variable(g, param, storage, is_ps) ==
    LET variable == g.next_id
        interface_type == [param.type EXCEPT
                              !.is_input = (storage = "Input") \/ @,
                              !.is_output = (storage = "Output") \/ @,
                              !.is_ptr = TRUE]
    IN  [decorate_interpolation(
            decorate_semantic(
                define_variable_id(make_id(g), variable, NoLocation, interface_type,
                                   <<>>, storage, 0),
                variable, param.semantic, is_ps),
            variable, param.type)
         EXCEPT !.inputs_and_outputs = Append(@, variable), !.ret = variable]

\* The lambdas create_input_param and create_output_param.
create_param(g, param) ==
    [define_variable_id(make_id(g), g.next_id, NoLocation, param.type, <<>>,
                        "Function", 0)
     EXCEPT !.call_params = Append(@, g.next_id), !.ret = g.next_id]

\* find_struct(id).member_list for a struct parameter, else the parameter
\* itself: what create_entry_point creates interface variables for.
flattened(g, param) ==
    IF type_is_struct(param.type)
    THEN g.structs[CHOOSE i \in 1..Len(g.structs) :
                        g.structs[i].definition = param.type.definition].member_list
    ELSE <<param>>

\* add_instruction_without_result(spv::OpStore).add(target).add(g.ret)
store_result(g, target) ==
    add_instruction_without_result_in_block(g, Ins("OpStore", 0, 0, <<target, g.ret>>))

\* add_instruction(spv::OpCompositeExtract, convert_type(type)).add(value)
\* .add(member_index)
composite_extract(g, type, value, member_index) ==
    LET extract(g1) == add_instruction_in_block(g1, "OpCompositeExtract", g1.ret,
                                                <<value, member_index>>)
    IN  extract(convert_type(g, type))

\* The output variables of an out parameter: one per member of a struct, or
\* one for the parameter.
RECURSIVE create_output_variables(_, _, _, _)
create_output_variables(g, members, i, is_ps) ==
    IF i > Len(members) \/ g.aborted # "" THEN g
    ELSE create_output_variables(
            create_interface_variable(g, members[i], "Output", is_ps),
            members, i + 1, is_ps)

\* The input variables of an in parameter, each loaded; ret is the sequence
\* of the loaded values.
RECURSIVE load_input_variables(_, _, _, _, _)
load_input_variables(g, members, i, elements, is_ps) ==
    LET load(g2, input_variable) ==
            add_instruction_in_block(g2, "OpLoad", g2.ret, <<input_variable>>)
        value(g1) ==
            load(convert_type(g1, [members[i].type EXCEPT !.is_ptr = FALSE]), g1.ret)
        next(g3) ==
            IF g3.aborted # "" THEN g3 ELSE
            load_input_variables(g3, members, i + 1, Append(elements, g3.ret), is_ps)
    IN  IF g.aborted # "" THEN g
        ELSE IF i > Len(members) THEN [g EXCEPT !.ret = elements]
        ELSE next(value(create_interface_variable(g, members[i], "Input", is_ps)))

\* The first loop of create_entry_point over func.parameter_list.
RECURSIVE create_entry_point_params(_, _, _, _)
create_entry_point_params(g, parameter_list, i, is_ps) ==
    LET param == parameter_list[i]
        construct(g3, elements) ==
            add_instruction_in_block(g3, "OpCompositeConstruct", g3.ret, elements)
        store(g2, param_variable) ==
            IF g2.aborted # "" THEN g2
            ELSE IF type_is_struct(param.type)
            THEN store_result(
                    construct(convert_type(g2, [param.type EXCEPT !.is_ptr = FALSE]),
                              g2.ret),
                    param_variable)
            ELSE store_result([g2 EXCEPT !.ret = g2.ret[1]], param_variable)
        variables(g1) ==
            IF g1.aborted # "" THEN g1
            ELSE IF type_has(param.type, "out")
            THEN create_output_variables(g1, flattened(g1, param), 1, is_ps)
            ELSE store(load_input_variables(g1, flattened(g1, param), 1, <<>>, is_ps),
                       g1.ret)
    IN  IF i > Len(parameter_list) \/ g.aborted # "" THEN g
        ELSE create_entry_point_params(variables(create_param(g, param)),
                                       parameter_list, i + 1, is_ps)

\* The stores of the members of an out struct parameter, from member_index on.
RECURSIVE store_output_members(_, _, _, _, _)
store_output_members(g, members, value, member_index, inputs_and_outputs_index) ==
    IF member_index >= Len(members) \/ g.aborted # "" THEN g
    ELSE store_output_members(
            store_result(
                composite_extract(g, members[member_index + 1].type, value, member_index),
                g.inputs_and_outputs[inputs_and_outputs_index + 1]),
            members, value, member_index + 1, inputs_and_outputs_index + 1)

\* The second loop of create_entry_point over func.parameter_list, after the
\* call.
RECURSIVE store_outputs(_, _, _, _, _)
store_outputs(g, parameter_list, i, param_index, inputs_and_outputs_index) ==
    LET param == parameter_list[i]
        count == Len(flattened(g, param))
        load(g1) == add_instruction_in_block(g1, "OpLoad", g1.ret,
                                             <<g1.call_params[param_index + 1]>>)
        store(g2) ==
            IF type_is_struct(param.type)
            THEN store_output_members(g2, flattened(g2, param), g2.ret, 0,
                                      inputs_and_outputs_index)
            ELSE store_result(g2, g2.inputs_and_outputs[inputs_and_outputs_index + 1])
    IN  IF i > Len(parameter_list) \/ g.aborted # "" THEN g
        ELSE store_outputs(
                IF type_has(param.type, "out")
                THEN store(load(convert_type(g, [param.type EXCEPT !.is_ptr = FALSE])))
                ELSE g,
                parameter_list, i + 1, param_index + 1,
                inputs_and_outputs_index + count)

\* The output variables of a struct return value, each stored from its member
\* of call_result.
RECURSIVE store_return_members(_, _, _, _, _)
store_return_members(g, members, call_result, member_index, is_ps) ==
    LET store(g1) ==
            store_result(
                composite_extract(g1, members[member_index + 1].type, call_result,
                                  member_index),
                g1.ret)
    IN  IF member_index >= Len(members) \/ g.aborted # "" THEN g
        ELSE store_return_members(
                store(create_interface_variable(g, members[member_index + 1],
                                                "Output", is_ps)),
                members, call_result, member_index + 1, is_ps)

\* What create_entry_point does with the return value of the call.
store_return_value(g, func, call_result, is_ps) ==
    LET result == g.next_id
        ptr_type == [func.return_type EXCEPT !.is_output = TRUE, !.is_ptr = TRUE]
        store(g1) ==
            store_result([g1 EXCEPT !.inputs_and_outputs = Append(@, result),
                                    !.ret = call_result], result)
    IN  IF g.aborted # "" THEN g
        ELSE IF type_is_struct(func.return_type)
        THEN store_return_members(g, flattened(g, [type |-> func.return_type]),
                                  call_result, 0, is_ps)
        ELSE IF ~type_is_void(func.return_type)
        THEN store(decorate_semantic(
                    define_variable_id(make_id(g), result, NoLocation, ptr_type, <<>>,
                                       "Output", 0),
                    result, func.return_semantic, is_ps))
        ELSE g

\* id create_entry_point(const function_info &func, bool is_ps)
create_entry_point(g, func, is_ps) ==
    LET definition == g.next_id
        entry_block == g.next_id + 1
        entry_point == [definition |-> definition, entry_block |-> entry_block,
                        name |-> <<>>, return_type |-> Type("void", 0, 0),
                        return_semantic |-> <<>>, parameter_list |-> <<>>]
        entry(g4) ==
            IF g4.aborted # "" THEN g4 ELSE
            [add_instruction_without_result(
                assert(g4, func.name # <<>>), SecRef("entries"),
                Ins("OpEntryPoint", 0, 0,
                    <<(IF is_ps THEN 4 ELSE 0), definition>> \o add_string(func.name)
                    \o g4.inputs_and_outputs))
             EXCEPT !.ret = definition]
        leave(g3) ==
            IF g3.aborted # "" THEN g3 ELSE
            entry(leave_function(
                    define_function(leave_block_and_return(g3, 0), NoLocation,
                                    entry_point)))
        results(g2) ==
            IF g2.aborted # "" THEN g2 ELSE
            leave(store_return_value(
                    store_outputs(g2, func.parameter_list, 1, 0, 0),
                    func, g2.ret, is_ps))
        call(g1) ==
            IF g1.aborted # "" THEN g1 ELSE
            results(emit_call(g1, NoLocation, func.definition, func.return_type,
                              g1.call_params))
    IN  call(create_entry_point_params(
                enter_block(
                    enter_function(
                        make_id(make_id([g EXCEPT !.call_params = <<>>,
                                                  !.inputs_and_outputs = <<>>])),
                        definition, Type("void", 0, 0)),
                    entry_block),
                func.parameter_list, 1, is_ps))

-----------------------------------------------------------------------------
(* Serialization.                                                          *)

MagicNumber == 119734787
Version == 66304

\* static void write(std::vector<uint32_t> &s, const spirv_instruction &ins)
write(ins) ==
    LET num_words == 1 + (IF ins.type # 0 THEN 1 ELSE 0)
                       + (IF ins.result # 0 THEN 1 ELSE 0) + Len(ins.operands)
    IN  <<num_words * 65536 + spv_Op(ins.op)>>
        \o (IF ins.type # 0 THEN <<ins.type>> ELSE <<>>)
        \o (IF ins.result # 0 THEN <<ins.result>> ELSE <<>>)
        \o ins.operands

RECURSIVE write_all(_)
write_all(instructions) ==
    IF instructions = <<>> THEN <<>>
    ELSE write(Head(instructions)) \o write_all(Tail(instructions))

\* What write_result writes of one function: nothing when its definition is
\* empty, else the declaration, the first label, the variables and the rest.
function_instructions(function) ==
    IF function.definition = <<>> THEN <<>>
    ELSE function.declaration \o <<Head(function.definition)>>
         \o function.variables \o Tail(function.definition)

\* The instructions of the module in the order write_result writes them, one
\* sequence per loop (or single write) of write_result.
module_sections_swapped(g) ==
    << <<Ins("OpCapability", 0, 0, <<0>>), Ins("OpCapability", 0, 0, <<1>>)>>,
       <<Ins("OpExtension", 0, 0, add_string(Chars("SPV_GOOGLE_hlsl_functionality1")))>>,
       <<Ins("OpExtInstImport", g.glsl_ext, 0, add_string(Chars("GLSL.std.450")))>>,
       <<Ins("OpMemoryModel", 0, 0, <<0, 1>>)>>,
       g.entries, g.debug_a, g.debug_b, g.annotations,
       g.variables, g.types_and_constants,
       Flatten([i \in 1..Len(g.functions2) |-> function_instructions(g.functions2[i])]) >>

module_sections(g) ==
    << <<Ins("OpCapability", 0, 0, <<0>>), Ins("OpCapability", 0, 0, <<1>>)>>,
       <<Ins("OpExtension", 0, 0, add_string(Chars("SPV_GOOGLE_hlsl_functionality1")))>>,
       <<Ins("OpExtInstImport", g.glsl_ext, 0, add_string(Chars("GLSL.std.450")))>>,
       <<Ins("OpMemoryModel", 0, 0, <<0, 1>>)>>,
       g.entries, g.debug_a, g.debug_b, g.annotations,
       g.types_and_constants, g.variables,
       Flatten([i \in 1..Len(g.functions2) |-> function_instructions(g.functions2[i])]) >>

\* The module write_result fills: the word stream, with the instructions it
\* was written from, and the entity lists copied through.
write_module(g, id_bound) ==
    LET instructions == Flatten(module_sections(g))
    IN  [ spirv |-> <<MagicNumber, Version, 0, id_bound, 0>> \o write_all(instructions),
          instructions |-> instructions,
          samplers |-> g.samplers, textures |-> g.textures,
          uniforms |-> g.uniforms, techniques |-> g.techniques ]

\* Whether write_result's assert on the first instruction of a function holds.
functions_start_with_label(g) ==
    \A i \in 1..Len(g.functions2) :
        g.functions2[i].definition # <<>> => Head(g.functions2[i].definition).op = "OpLabel"

id_bound_largest(g) == g.next_id - 1

\* write(s.spirv, _next_id); // Maximum ID
id_bound(g) == g.next_id

\* write_result after create_global_ubo, on the generator g1 it leaves.
write_result_module(g1) ==
    [g |-> assert(g1, functions_start_with_label(g1)),
     s |-> write_module(g1, id_bound(g1))]

\* void write_result(module &s) const: the generator after the call (the
\* const_cast makes create_global_ubo change it) and the module written.
write_result(g, ub) == write_result_module(create_global_ubo(g, ub))

-----------------------------------------------------------------------------
(* The HLSL code generator (codegen_hlsl).  Text is a sequence of bytes;   *)
(* _blocks is a function from the ids that have an entry to their text.    *)

\* codegen_hlsl after its (implicit) constructor: no block, no name.
codegen_hlsl ==
    [ aborted |-> "", next_id |-> 1, ret |-> 0,
      blocks |-> <<>>, names |-> <<>>, last_block |-> 0, current_block |-> 0,
      structs |-> <<>>, textures |-> <<>>, samplers |-> <<>>, uniforms |-> <<>>,
      techniques |-> <<>>, functions |-> <<>> ]

\* _blocks.find(id) != _blocks.end()
hlsl_has_block(g, id) == \E i \in 1..Len(g.blocks) : g.blocks[i].first = id

hlsl_block(g, id) ==
    g.blocks[CHOOSE i \in 1..Len(g.blocks) : g.blocks[i].first = id].second

\* code() += text: _blocks[_current_block] inserts an empty entry when the
\* block has none.
hlsl_code_append(g, text) ==
    IF hlsl_has_block(g, g.current_block)
    THEN [g EXCEPT !.blocks = [i \in 1..Len(g.blocks) |->
                IF g.blocks[i].first = g.current_block
                THEN [g.blocks[i] EXCEPT !.second = @ \o text] ELSE g.blocks[i]]]
    ELSE [g EXCEPT !.blocks = Append(@, [first |-> g.current_block, second |-> text])]

\* std::to_string of a number below ten.
to_string(n) == <<48 + n>>

\* std::string write_type(const type &type)
hlsl_write_type(type) ==
    (CASE type.base = "void" -> Chars("void")
       [] type.base = "bool" -> Chars("bool")
       [] type.base = "int" -> Chars("int")
       [] type.base = "uint" -> Chars("uint")
       [] type.base = "float" -> Chars("float")
       [] type.base = "sampler" -> Chars("__sampler")
       [] OTHER -> <<>>)
    \o (IF type.rows > 1 THEN to_string(type.rows) ELSE <<>>)
    \o (IF type.cols > 1 THEN <<120>> \o to_string(type.cols) ELSE <<>>)

\* std::string write_location(const location &loc): "#line N \"source\"\n"
hlsl_write_location(loc) ==
    IF loc.source = <<>> THEN <<>>
    ELSE <<35, 108, 105, 110, 101, 32>> \o to_string(loc.line) \o <<32, 34>>
         \o loc.source \o <<34, 10>>

hlsl_set_name(g, id, name) ==
    [g EXCEPT !.names = SelectSeq(@, LAMBDA x : x.first # id)
                        \o <<[first |-> id, second |-> name]>>]

\* id define_texture(const location &, texture_info &info)
hlsl_define_texture(g, loc, info) ==
    [g EXCEPT !.textures = Append(@, info), !.ret = info.id]

\* id define_sampler(const location &loc, sampler_info &info)
hlsl_define_sampler(g, loc, info) ==
    LET named(g2) == [hlsl_set_name(g2, info.id, info.unique_name) EXCEPT !.ret = info.id]
        code(g1) == named(hlsl_code_append(g1,
                        Chars("__sampler") \o <<32>> \o info.unique_name \o <<59, 10>>))
    IN  code(hlsl_code_append([g EXCEPT !.samplers = Append(@, info)],
                              hlsl_write_location(loc)))

\* id define_uniform(const location &loc, uniform_info &info); the id it
\* returns, 0xFFFFFFFF, is written -1.
hlsl_define_uniform(g, loc, info) ==
    LET named(g2) == [hlsl_set_name(g2, -1, Chars("_Globals")) EXCEPT !.ret = -1]
        code(g1) == named(hlsl_code_append(g1,
                        hlsl_write_type(info.type) \o <<32>> \o info.name \o <<59, 10>>))
    IN  code(hlsl_code_append(
                [g EXCEPT !.uniforms =
                    Append(@, [info EXCEPT !.member_index = Len(g.uniforms)])],
                hlsl_write_location(loc)))

\* id define_technique(const location &, technique_info &info)
hlsl_define_technique(g, loc, info) ==
    [g EXCEPT !.techniques = Append(@, info), !.ret = 0]

\* void write_result(module &s) const: _blocks.at(0) throws
\* std::out_of_range when block 0 has no entry, and nothing in the
\* function catches it, so no field of the module is assigned.
hlsl_write_result(g) ==
    IF ~hlsl_has_block(g, 0)
    THEN [g |-> [g EXCEPT !.aborted = "out_of_range"], s |-> <<>>]
    ELSE [g |-> g,
          s |-> [hlsl |-> hlsl_block(g, 0), samplers |-> g.samplers,
                 textures |-> g.textures, uniforms |-> g.uniforms,
                 techniques |-> g.techniques]]

-----------------------------------------------------------------------------
(* The D3D11 effect linker: d3d11_effect_compiler::run on a module, against *)
(* the runtime's shared stores.                                            *)

roundto16_down(size) == (size \div 16) * 16

\* static inline size_t roundto16(size_t size)
roundto16(size) == ((size + 15) \div 16) * 16

\* The four bytes of a 32-bit field, lowest first, as reinterpret_cast to
\* uint8_t reads them.
bytes_of(v) == <<v % 256, (v \div 256) % 256, (v \div 65536) % 256, v \div 16777216>>

\* D3D11_SAMPLER_DESC desc = {} after the assignments of visit_sampler: 52
\* bytes; the floats are given by their bits.
sampler_desc(sampler_info) ==
    bytes_of(sampler_info.filter) \o bytes_of(sampler_info.address_u)
    \o bytes_of(sampler_info.address_v) \o bytes_of(sampler_info.address_w)
    \o bytes_of(sampler_info.lod_bias)
    \o bytes_of(1)                          \* MaxAnisotropy
    \o bytes_of(1)                          \* D3D11_COMPARISON_NEVER
    \o [i \in 1..16 |-> 0]                  \* BorderColor
    \o bytes_of(sampler_info.min_lod) \o bytes_of(sampler_info.max_lod)

\* A size_t is a sequence of 16-bit digits, lowest first: two of them in a
\* 32-bit build, four in a 64-bit build.
size_t(digits, lo, hi) == [k \in 1..digits |-> IF k = 1 THEN lo ELSE IF k = 2 THEN hi ELSE 0]

\* h * 16777619 in the width of h: 16777619 = 256 * 65536 + 403.
RECURSIVE size_t_times_prime(_, _, _)
size_t_times_prime(h, k, carry) ==
    IF k > Len(h) THEN <<>>
    ELSE LET t == h[k] * 403 + (IF k > 1 THEN h[k - 1] * 256 ELSE 0) + carry
         IN  <<t % 65536>> \o size_t_times_prime(h, k + 1, t \div 65536)

\* a ^ b on bytes.
RECURSIVE xor(_, _, _)
xor(a, b, bits) ==
    IF bits = 0 THEN 0
    ELSE ((a + b) % 2) + 2 * xor(a \div 2, b \div 2, bits - 1)

\* A round of the FNV-1a hash: desc_hash = (desc_hash ^ byte) * 16777619
desc_hash_round_fnv1a(h, byte) ==
    size_t_times_prime([h EXCEPT ![1] = (@ \div 256) * 256 + xor(@ % 256, byte, 8)], 1, 0)

\* One round of the loop of visit_sampler:
\* desc_hash = (desc_hash * 16777619) ^ byte
desc_hash_round(h, byte) ==
    LET product == size_t_times_prime(h, 1, 0)
    IN  [product EXCEPT ![1] = (@ \div 256) * 256 + xor(@ % 256, byte, 8)]

\* size_t desc_hash = 2166136261 and the loop over the bytes of desc.
RECURSIVE desc_hash(_, _, _)
desc_hash(h, desc, i) ==
    IF i > Len(desc) \/ h = <<>> THEN h
    ELSE desc_hash(desc_hash_round(h, desc[i]), desc, i + 1)

FnvOffsetBasisLow == 40389       \* 2166136261 = 33052 * 65536 + 40389
FnvOffsetBasisHigh == 33052

\* A view of a resource; the null view views resource 0.
View(kind, resource, slot) == [kind |-> kind, resource |-> resource, slot |-> slot]
NullView == View("", 0, 0)

\* A sampler state object remembers the descriptor it was created from.
NullSamplerState == [id |-> 0, desc |-> <<>>]

\* The runtime before any effect has been linked.  Resources 1, 2 and 3
\* are the back buffer copy its shader resource views show, the back buffer
\* its render target views draw to, and the depth-stencil copy.
d3d11_runtime ==
    [ uniform_value_storage |-> 0,     \* size of the uniform byte arena
      constant_buffers |-> <<>>,       \* sizes of the buffers of _constant_buffers
      uniforms |-> <<>>,
      textures |-> <<>>, techniques |-> <<>>,
      effect_sampler_states |-> <<>>,  \* pairs of a hash and a sampler state
      backbuffer_texture_srv |-> <<View("srv", 1, 0), View("srv", 1, 1)>>,
      backbuffer_rtv |-> <<View("rtv", 2, 0), View("rtv", 2, 1)>>,
      depthstencil_texture_srv |-> View("srv", 3, 0),
      frame_width |-> 64, frame_height |-> 64,
      build |-> "release",             \* "debug": assert aborts
      heap |-> "unnoticed",            \* what a write beyond the arena does
      size_t |-> 2,                    \* 16-bit digits of a size_t
      device |-> [ fails |-> {},       \* the calls that return a failure
                   broken |-> {},      \* the entry points D3DCompile rejects
                   created |-> 3 ] ]   \* the objects created so far

\* A d3d11_effect_compiler as constructed, on runtime r.
d3d11_effect_compiler(r) ==
    [ runtime |-> r, success |-> TRUE, uniform_storage_offset |-> 0,
      constant_buffer_size |-> 0, library |-> "none", freed |-> 0,
      returned |-> "none", writes_in_arena |-> TRUE,
      errors |-> <<>>, aborted |-> "",
      sampler_bindings |-> <<>>, texture_bindings |-> <<>>,
      vs_entry_points |-> <<>>, ps_entry_points |-> <<>>,
      compiled |-> <<>> ]              \* the entry points handed to D3DCompile

\* void d3d11_effect_compiler::error(const std::string &message)
error(l, message) ==
    [l EXCEPT !.success = FALSE,
              !.errors = Append(@, [severity |-> "error", message |-> message])]

\* A warning that fails the module as an error does.
warning_failing(l, message) ==
    [l EXCEPT !.success = FALSE,
              !.errors = Append(@, [severity |-> "warning", message |-> message])]

\* void d3d11_effect_compiler::warning(const std::string &message)
warning(l, message) ==
    [l EXCEPT !.errors = Append(@, [severity |-> "warning", message |-> message])]

\* FAILED(hr) of a call on the device or the compiler library.
FAILED(l, call) == call \in l.runtime.device.fails

\* A call on the device that creates an object; the object is numbered
\* whether the linker keeps it or not.
created(l) == [l EXCEPT !.runtime.device.created = @ + 1]

\* _runtime->find_texture(unique_name): the index in the registry, 0 for
\* nullptr.
find_texture(r, unique_name) ==
    LET hit == {i \in 1..Len(r.textures) : r.textures[i].unique_name = unique_name}
    IN  IF hit = {} THEN 0 ELSE CHOOSE i \in hit : \A j \in hit : i <= j

\* static DXGI_FORMAT literal_to_format(texture_format value), on the
\* formats the model uses.
literal_to_format(value) ==
    CASE value = "r8" -> "R8_UNORM"
      [] value = "rgba8" -> "R8G8B8A8_TYPELESS"
      [] OTHER -> "UNKNOWN"

make_format_srgb(format) ==
    IF format \in {"R8G8B8A8_TYPELESS", "R8G8B8A8_UNORM"} THEN "R8G8B8A8_UNORM_SRGB"
    ELSE format

make_format_normal(format) ==
    IF format \in {"R8G8B8A8_TYPELESS", "R8G8B8A8_UNORM_SRGB"} THEN "R8G8B8A8_UNORM"
    ELSE format

\* The test visit_texture makes of a texture the registry already holds.
\* The variant reports every difference, whatever the semantic.
different_dimensions_any_semantic(existing_texture, texture_info) ==
    \/ existing_texture.width # texture_info.width
    \/ existing_texture.height # texture_info.height
    \/ existing_texture.levels # texture_info.levels
    \/ existing_texture.format # texture_info.format

different_dimensions(existing_texture, texture_info) ==
    /\ texture_info.semantic = <<>>
    /\ \/ existing_texture.width # texture_info.width
       \/ existing_texture.height # texture_info.height
       \/ existing_texture.levels # texture_info.levels
       \/ existing_texture.format # texture_info.format

\* void d3d11_effect_compiler::visit_texture(const texture_info &texture_info)
visit_texture(l, texture_info) ==
    LET existing_texture == find_texture(l.runtime, texture_info.unique_name)
        obj == [ unique_name |-> texture_info.unique_name,
                 width |-> texture_info.width, height |-> texture_info.height,
                 levels |-> texture_info.levels, format |-> texture_info.format,
                 desc |-> [Width |-> texture_info.width, Height |-> texture_info.height,
                           Format |-> literal_to_format(texture_info.format)],
                 impl_reference |-> "none", texture |-> 0,
                 srv |-> <<NullView, NullView>>, rtv |-> <<NullView, NullView>> ]
        add_texture(l1, o) == [l1 EXCEPT !.runtime.textures = Append(@, o)]
        srgb_view(l2, o) ==
            IF make_format_srgb(o.desc.Format) # o.desc.Format
            THEN IF FAILED(l2, "CreateShaderResourceView")
                 THEN error(l2, "CreateShaderResourceView")
                 ELSE add_texture(created(l2),
                                  [o EXCEPT !.srv[2] = View("srv", o.texture, 1)])
            ELSE add_texture(l2, [o EXCEPT !.srv[2] = o.srv[1]])
        view(l1, o) ==
            IF FAILED(l1, "CreateShaderResourceView")
            THEN error(l1, "CreateShaderResourceView")
            ELSE srgb_view(created(l1), [o EXCEPT !.srv[1] = View("srv", o.texture, 0)])
    IN  IF l.aborted # "" THEN l
        ELSE IF existing_texture # 0
        THEN IF different_dimensions(l.runtime.textures[existing_texture], texture_info)
             THEN error(l, "already created a texture with the same name but different dimensions")
             ELSE l
        ELSE IF texture_info.semantic = Chars("COLOR")
        THEN add_texture(l, [obj EXCEPT !.width = l.runtime.frame_width,
                                        !.height = l.runtime.frame_height,
                                        !.impl_reference = "back_buffer",
                                        !.srv = l.runtime.backbuffer_texture_srv])
        ELSE IF texture_info.semantic = Chars("DEPTH")
        THEN add_texture(l, [obj EXCEPT !.width = l.runtime.frame_width,
                                        !.height = l.runtime.frame_height,
                                        !.impl_reference = "depth_buffer",
                                        !.srv = <<l.runtime.depthstencil_texture_srv,
                                                  l.runtime.depthstencil_texture_srv>>])
        ELSE IF texture_info.semantic # <<>> THEN error(l, "invalid semantic")
        ELSE IF FAILED(l, "CreateTexture2D") THEN error(l, "CreateTexture2D")
        ELSE view(created(l), [obj EXCEPT !.texture = l.runtime.device.created + 1])

\* The lookup of visit_sampler in _effect_sampler_states: the index of the
\* entry of this hash, 0 for end().
effect_sampler_states_find(r, hash) ==
    LET hit == {i \in 1..Len(r.effect_sampler_states) :
                    r.effect_sampler_states[i].first = hash}
    IN  IF hit = {} THEN 0 ELSE CHOOSE i \in hit : TRUE

\* std::vector::resize to at least n elements, the new ones value-initialized.
resize(v, n, null) == [i \in 1..Max(Len(v), n) |-> IF i <= Len(v) THEN v[i] ELSE null]

\* void d3d11_effect_compiler::visit_sampler(const sampler_info &sampler_info)
visit_sampler(l, sampler_info) ==
    LET existing_texture == find_texture(l.runtime, sampler_info.texture_name)
        desc == sampler_desc(sampler_info)
        bind(l1, state) ==
            [l1 EXCEPT
                !.sampler_bindings =
                    [resize(@, sampler_info.binding + 1, NullSamplerState)
                        EXCEPT ![sampler_info.binding + 1] = state],
                !.texture_bindings =
                    [resize(@, sampler_info.binding + 1, NullView)
                        EXCEPT ![sampler_info.binding + 1] =
                            l1.runtime.textures[existing_texture].srv[
                                IF sampler_info.srgb THEN 2 ELSE 1]]]
        emplace(l1, desc_hash1) ==
            bind([l1 EXCEPT !.runtime.effect_sampler_states =
                        Append(@, [first |-> desc_hash1,
                                   second |-> [id |-> l1.runtime.device.created,
                                               desc |-> desc]])],
                 [id |-> l1.runtime.device.created, desc |-> desc])
        find(desc_hash1) ==
            IF effect_sampler_states_find(l.runtime, desc_hash1) = 0
            THEN IF FAILED(l, "CreateSamplerState") THEN error(l, "CreateSamplerState")
                 ELSE emplace(created(l), desc_hash1)
            ELSE bind(l, l.runtime.effect_sampler_states[
                            effect_sampler_states_find(l.runtime, desc_hash1)].second)
    IN  IF l.aborted # "" \/ existing_texture = 0 THEN l
        ELSE find(desc_hash(size_t(l.runtime.size_t, FnvOffsetBasisLow,
                                   FnvOffsetBasisHigh), desc, 1))

\* visit_uniform, were it to place the uniform at its offset in the module
\* and not behind the uniforms the arena already holds.
visit_uniform_at_module_offset(l, uniform_info) ==
    LET obj == [ name |-> uniform_info.name,
                 rows |-> uniform_info.type.rows,
                 columns |-> uniform_info.type.cols,
                 elements |-> Max(1, uniform_info.type.array_length),
                 storage_size |-> uniform_info.size,
                 storage_offset |-> uniform_info.offset ]
    IN  [l EXCEPT
            !.constant_buffer_size = Max(@, obj.storage_offset + obj.storage_size),
            !.runtime.uniforms = Append(@, obj)]

\* void d3d11_effect_compiler::visit_uniform(const uniform_info &uniform_info)
visit_uniform(l, uniform_info) ==
    LET obj == [ name |-> uniform_info.name,
                 rows |-> uniform_info.type.rows,
                 columns |-> uniform_info.type.cols,
                 elements |-> Max(1, uniform_info.type.array_length),
                 storage_size |-> uniform_info.size,
                 storage_offset |-> l.uniform_storage_offset + uniform_info.offset ]
        arena == l.runtime.uniform_value_storage
        grown == IF obj.storage_offset + obj.storage_size >= arena
                 THEN arena + 128 ELSE arena
        \* the memcpy or memset writes beyond the end of the vector
        beyond == obj.storage_offset + obj.storage_size > grown
    IN  [l EXCEPT
            !.constant_buffer_size =
                Max(@, (obj.storage_offset + obj.storage_size) - l.uniform_storage_offset),
            !.runtime.uniform_value_storage = grown,
            !.writes_in_arena = @ /\ ~beyond,
            !.aborted = IF beyond /\ l.runtime.heap = "crash" THEN "crash" ELSE @,
            !.runtime.uniforms = Append(@, obj)]

RECURSIVE visit_uniforms(_, _)
visit_uniforms(l, uniforms) ==
    IF uniforms = <<>> \/ l.aborted # "" THEN l
    ELSE visit_uniforms(visit_uniform(l, Head(uniforms)), Tail(uniforms))

\* vs_entry_points[name] and ps_entry_points[name]: the shader, 0 for the
\* null pointer operator[] inserts when the name has no entry.
entry_point(entry_points, name) ==
    LET hit == {i \in 1..Len(entry_points) : entry_points[i].first = name}
    IN  IF hit = {} THEN 0 ELSE entry_points[CHOOSE i \in hit : TRUE].second

entry_point_insert(entry_points, name, shader) ==
    IF \E i \in 1..Len(entry_points) : entry_points[i].first = name
    THEN [i \in 1..Len(entry_points) |->
            IF entry_points[i].first = name
            THEN [entry_points[i] EXCEPT !.second = shader] ELSE entry_points[i]]
    ELSE Append(entry_points, [first |-> name, second |-> shader])

RenderTargets == 8

\* d3d11_pass_data as make_unique constructs it.
d3d11_pass_data ==
    [ vertex_shader |-> 0, pixel_shader |-> 0,
      viewport |-> [Width |-> 0, Height |-> 0],
      shader_resources |-> <<>>, clear_render_targets |-> FALSE,
      render_targets |-> [k \in 1..RenderTargets |-> NullView],
      render_target_resources |-> [k \in 1..RenderTargets |-> NullView] ]

\* The test of a render target against the viewport of the pass; the
\* variant lets every size pass.
any_size(viewport, desc) == FALSE

different_sized(viewport, desc) ==
    /\ viewport.Width # 0 /\ viewport.Height # 0
    /\ \/ desc.Width # viewport.Width
       \/ desc.Height # viewport.Height

\* The loop of visit_technique over the render targets of a pass, from the
\* k-th on; x holds the linker, the pass and whether visit_technique goes on
\* (ok) or has returned.
RECURSIVE visit_render_targets(_, _, _)
visit_render_targets(x, pass_info, k) ==
    LET render_target == pass_info.render_target_names[k]
        target_index == IF pass_info.srgb_write_enable THEN 2 ELSE 1
        texture == find_texture(x.l.runtime, render_target)
        desc == x.l.runtime.textures[texture].desc
        \* pass.render_targets[k] and pass.render_target_resources[k]
        assign(l2) ==
            [x EXCEPT !.l = l2,
                      !.pass.viewport = [Width |-> desc.Width, Height |-> desc.Height],
                      !.pass.render_targets[k] =
                            l2.runtime.textures[texture].rtv[target_index],
                      !.pass.render_target_resources[k] =
                            l2.runtime.textures[texture].srv[target_index]]
        \* the render target view, created when the texture caches none
        view(l1) ==
            IF l1.runtime.textures[texture].rtv[target_index] = NullView
            THEN IF FAILED(l1, "CreateRenderTargetView")
                 THEN assign(warning(l1, "CreateRenderTargetView"))
                 ELSE assign([created(l1) EXCEPT
                                !.runtime.textures[texture].rtv[target_index] =
                                    View("rtv", l1.runtime.textures[texture].texture,
                                         target_index - 1)])
            ELSE assign(l1)
    IN  IF k > RenderTargets \/ ~x.ok THEN x
        ELSE IF render_target = <<>> THEN visit_render_targets(x, pass_info, k + 1)
        ELSE IF texture = 0
        THEN [x EXCEPT !.l = error(x.l, "texture not found"), !.ok = FALSE]
        ELSE IF x.l.runtime.textures[texture].texture = 0
        THEN [x EXCEPT !.l.aborted = "crash", !.ok = FALSE]
        ELSE IF different_sized(x.pass.viewport, desc)
        THEN [x EXCEPT !.l = error(x.l, "cannot use multiple rendertargets with different sized textures"),
                       !.ok = FALSE]
        ELSE visit_render_targets(view(x.l), pass_info, k + 1)

\* The pass, were no shader resource of it reset.
shader_resources_kept(pass) == pass

\* The end of the body of the loop over the passes: the shader resources
\* that show a resource one of the render targets draws to are reset.
reset_shader_resources(pass) ==
    [pass EXCEPT !.shader_resources =
        [i \in 1..Len(@) |->
            IF /\ @[i] # NullView
               /\ \E k \in 1..RenderTargets :
                    /\ pass.render_targets[k] # NullView
                    /\ pass.render_targets[k].resource = @[i].resource
            THEN NullView ELSE @[i]]]

\* The body of the loop of visit_technique over the passes.
visit_pass(l, pass_info) ==
    LET target_index == IF pass_info.srgb_write_enable THEN 2 ELSE 1
        shaders(l1) ==
            [l1 EXCEPT !.vs_entry_points =
                            entry_point_insert(@, pass_info.vs_entry_point,
                                entry_point(@, pass_info.vs_entry_point)),
                       !.ps_entry_points =
                            entry_point_insert(@, pass_info.ps_entry_point,
                                entry_point(@, pass_info.ps_entry_point)),
                       !.aborted =
                            IF /\ l1.runtime.build = "debug"
                               /\ \/ entry_point(l1.vs_entry_points,
                                                  pass_info.vs_entry_point) = 0
                                  \/ entry_point(l1.ps_entry_points,
                                                  pass_info.ps_entry_point) = 0
                            THEN "assert" ELSE @]
        pass == [d3d11_pass_data EXCEPT
                    !.vertex_shader = entry_point(l.vs_entry_points,
                                                  pass_info.vs_entry_point),
                    !.pixel_shader = entry_point(l.ps_entry_points,
                                                 pass_info.ps_entry_point),
                    !.shader_resources = l.texture_bindings,
                    !.clear_render_targets = pass_info.clear_render_targets,
                    !.render_targets[1] = l.runtime.backbuffer_rtv[target_index],
                    !.render_target_resources[1] =
                        l.runtime.backbuffer_texture_srv[target_index]]
        state(l3, call) == IF FAILED(l3, call) THEN warning(l3, call) ELSE created(l3)
        states(x) ==
            IF ~x.ok THEN x
            ELSE [x EXCEPT
                    !.l = state(state(x.l, "CreateDepthStencilState"), "CreateBlendState"),
                    !.pass = reset_shader_resources(
                                IF x.pass.viewport.Width = 0 /\ x.pass.viewport.Height = 0
                                THEN [x.pass EXCEPT !.viewport =
                                        [Width |-> x.l.runtime.frame_width,
                                         Height |-> x.l.runtime.frame_height]]
                                ELSE x.pass)]
        targets(l2) ==
            IF l2.aborted # "" THEN [l |-> l2, pass |-> pass, ok |-> FALSE]
            ELSE states(visit_render_targets([l |-> l2, pass |-> pass, ok |-> TRUE],
                                             pass_info, 1))
    IN  targets(shaders(l))

\* The loop of visit_technique over the passes, from the i-th on, and the
\* add_technique after it; obj is the technique built so far.
RECURSIVE visit_passes(_, _, _, _)
visit_passes(l, obj, passes, i) ==
    LET next(x) ==
            IF ~x.ok THEN x.l
            ELSE visit_passes(x.l, [obj EXCEPT !.passes = Append(@, x.pass)],
                              passes, i + 1)
    IN  IF i > Len(passes)
        THEN [l EXCEPT !.runtime.techniques = Append(@, obj)]
        ELSE next(visit_pass(l, passes[i]))

\* visit_technique where the technique names the constant buffer appended
\* last and the start of the arena.
visit_technique_of_last_buffer(l, technique_info) ==
    IF l.aborted # "" THEN l
    ELSE visit_passes(
            [l EXCEPT !.runtime.device.created = @ + 3],
            [ name |-> technique_info.name,
              uniform_storage_index |->
                    IF l.constant_buffer_size # 0
                    THEN Len(l.runtime.constant_buffers) - 1 ELSE -1,
              uniform_storage_offset |-> 0,
              sampler_states |-> l.sampler_bindings,
              passes |-> <<>> ],
            technique_info.passes, 1)

\* void d3d11_effect_compiler::visit_technique(const technique_info
\* &technique_info); the three queries it creates are not looked at again.
visit_technique(l, technique_info) ==
    IF l.aborted # "" THEN l
    ELSE visit_passes(
            [l EXCEPT !.runtime.device.created = @ + 3],
            [ name |-> technique_info.name,
              uniform_storage_index |->
                    IF l.constant_buffer_size # 0
                    THEN Len(l.runtime.constant_buffers) ELSE -1,
              uniform_storage_offset |->
                    IF l.constant_buffer_size # 0 THEN l.uniform_storage_offset ELSE 0,
              sampler_states |-> l.sampler_bindings,
              passes |-> <<>> ],
            technique_info.passes, 1)

\* void d3d11_effect_compiler::compile_entry_point(const std::string
\* &entry_point, bool is_ps)
compile_entry_point(l, name, is_ps) ==
    LET shader(l1) ==
            IF FAILED(l1, "CreateShader") THEN error(l1, "CreateShader")
            ELSE IF is_ps
            THEN [created(l1) EXCEPT !.ps_entry_points =
                    entry_point_insert(@, name, l1.runtime.device.created + 1)]
            ELSE [created(l1) EXCEPT !.vs_entry_points =
                    entry_point_insert(@, name, l1.runtime.device.created + 1)]
        compile(l1) ==
            IF name \in l1.runtime.device.broken
            THEN error([l1 EXCEPT !.errors =
                            Append(@, [severity |-> "", message |-> "D3DCompile"])],
                       "internal shader compilation failed")
            ELSE shader(l1)
    IN  compile([l EXCEPT !.compiled = Append(@, name)])

\* The loop over the entry points, were it to stop at the first failure.
RECURSIVE compile_entry_points_until_failure(_, _)
compile_entry_points_until_failure(l, entry_points) ==
    IF entry_points = <<>> \/ ~l.success THEN l
    ELSE compile_entry_points_until_failure(
            compile_entry_point(l, Head(entry_points).first, Head(entry_points).second),
            Tail(entry_points))

\* The loop of run over the entry points of the module.
RECURSIVE compile_entry_points(_, _)
compile_entry_points(l, entry_points) ==
    IF entry_points = <<>> THEN l
    ELSE compile_entry_points(
            compile_entry_point(l, Head(entry_points).first, Head(entry_points).second),
            Tail(entry_points))

\* The loops of run over the textures, the samplers and the techniques of
\* the module; kind names the loop.
RECURSIVE visit_each(_, _, _)
visit_each(l, kind, infos) ==
    IF infos = <<>> \/ l.aborted # "" THEN l
    ELSE visit_each(CASE kind = "texture" -> visit_texture(l, Head(infos))
                      [] kind = "sampler" -> visit_sampler(l, Head(infos))
                      [] kind = "technique" -> visit_technique(l, Head(infos)),
                    kind, Tail(infos))

\* The end of run, were the arena left at the size visit_uniform grew it to.
create_constant_buffer_of_grown_arena(l) ==
    IF l.constant_buffer_size # 0
    THEN [l EXCEPT !.constant_buffer_size = roundto16(@),
                   !.runtime.constant_buffers = Append(@, roundto16(l.constant_buffer_size))]
    ELSE l

\* The end of run: the constant buffer of the effect.
create_constant_buffer(l) ==
    IF l.constant_buffer_size # 0
    THEN LET size == roundto16(l.constant_buffer_size)
         IN  [l EXCEPT !.constant_buffer_size = size,
                       !.runtime.uniform_value_storage = l.uniform_storage_offset + size,
                       !.runtime.constant_buffers = Append(@, size)]
    ELSE l

\* reshadefx::module as the linker reads it: write_result assigns no entry
\* points, the parser does.
module(s, entry_points) ==
    [ entry_points |-> entry_points, textures |-> s.textures, samplers |-> s.samplers,
      uniforms |-> s.uniforms, techniques |-> s.techniques ]

\* run, were the library freed only when every entry point compiled.
run_freeing_after_success(l, s, library) ==
    LET return(l5) ==
            [l5 EXCEPT !.returned = IF l5.success THEN "true" ELSE "false"]
        buffer(l4) ==
            IF l4.aborted # "" THEN l4 ELSE return(create_constant_buffer(l4))
        setup(l2) ==
            buffer(
                visit_each(
                    visit_uniforms(
                        visit_each(
                            visit_each(l2, "texture", s.textures),
                            "sampler", s.samplers),
                        s.uniforms),
                    "technique", s.techniques))
        compiled(l1) ==
            IF ~l1.success THEN [l1 EXCEPT !.returned = "false"]
            ELSE setup([l1 EXCEPT !.freed = @ + 1,
                                  !.uniform_storage_offset =
                                    l.runtime.uniform_value_storage])
    IN  IF library = "none"
        THEN [l EXCEPT !.returned = "false",
                       !.errors = Append(@, [severity |-> "",
                                             message |-> "Unable to load D3DCompiler library"])]
        ELSE compiled(compile_entry_points(
                        [l EXCEPT !.library = library],
                        s.entry_points))

\* bool d3d11_effect_compiler::run(): library is the d3dcompiler version
\* that loads ("47", "43") or "none"; freed counts the calls of FreeLibrary.
run(l, s, library) ==
    LET return(l5) ==
            [l5 EXCEPT !.returned = IF l5.success THEN "true" ELSE "false"]
        buffer(l4) ==
            IF l4.aborted # "" THEN l4 ELSE return(create_constant_buffer(l4))
        setup(l2) ==
            buffer(
                visit_each(
                    visit_uniforms(
                        visit_each(
                            visit_each(l2, "texture", s.textures),
                            "sampler", s.samplers),
                        s.uniforms),
                    "technique", s.techniques))
        compiled(l1) ==
            IF ~l1.success THEN [l1 EXCEPT !.returned = "false", !.freed = @ + 1]
            ELSE setup([l1 EXCEPT !.freed = @ + 1,
                                  !.uniform_storage_offset =
                                    l.runtime.uniform_value_storage])
    IN  IF library = "none"
        THEN [l EXCEPT !.returned = "false",
                       !.errors = Append(@, [severity |-> "",
                                             message |-> "Unable to load D3DCompiler library"])]
        ELSE compiled(compile_entry_points(
                        [l EXCEPT !.library = library],
                        s.entry_points))

-----------------------------------------------------------------------------
(* Inputs of the frontend.                                                 *)

TFloat == Type("float", 1, 1)
TFloat2 == Type("float", 2, 1)
TFloat3 == Type("float", 3, 1)
TFloat4 == Type("float", 4, 1)
TFloat3x3 == Type("float", 3, 3)
TFloat4x4 == Type("float", 4, 4)
TInt == Type("int", 1, 1)
TUint == Type("uint", 1, 1)
TBool == Type("bool", 1, 1)
TVoid == Type("void", 0, 0)
TFloatArray3 == [Type("float", 1, 1) EXCEPT !.array_length = 3]
TFloat4x4Array3 == [Type("float", 4, 4) EXCEPT !.array_length = 3]

UniformTypes ==
    {TFloat, TFloat2, TFloat3, TFloat4, TFloat3x3, TFloat4x4, TFloatArray3,
     TFloat4x4Array3, TInt}

\* What the build may make of a write beyond the end of the uniform arena.
HeapOutcomes == {"unnoticed", "crash"}

UniformNames == <<Chars("a"), Chars("b"), Chars("c"), Chars("S"), Chars("fx")>>

\* The uniform_info the parser builds for the n-th uniform, of type t.
UniformInfo(n, t) ==
    [ name |-> UniformNames[(n % Len(UniformNames)) + 1],
      type |-> [t EXCEPT !.qualifiers = {"uniform"}],
      size |-> uniform_info_size(t), offset |-> 0,
      member_index |-> 0, struct_type_id |-> 0, has_initializer_value |-> FALSE ]

\* What the build may make of the dangling reference in define_struct.
Builds == {"debug", "release"}

DanglingOutcomes == {"intact", "stale", "crash"}

Libraries == {"47", "43", "none"}

NoModule == [n |-> 0, s |-> <<>>]

-----------------------------------------------------------------------------
(* Initial state and the steps the layout of uniforms takes: the frontend  *)
(* defines uniforms, the module is written once, the linker runs on it.    *)

Init ==
    /\ cg \in {[codegen_spirv EXCEPT !.build = b] : b \in Builds}
    /\ out = NoModule
    /\ ops = 0
    /\ mon = [op |-> "init", ret |-> 0, arg |-> 0, types |-> <<>>, constants |-> <<>>,
              switch |-> <<>>, switches |-> <<>>, entry_points |-> <<>>,
              locals |-> <<>>]
    /\ lk = d3d11_effect_compiler(d3d11_runtime)

\* The record of the last operation.
Mon(op, ret, arg) == [mon EXCEPT !.op = op, !.ret = ret, !.arg = arg]

Alive == cg.aborted = ""
Building == Alive /\ out.n = 0

DefineUniform(t) ==
    /\ Building
    /\ Len(cg.uniforms) < MaxUniforms
    /\ cg' = define_uniform(cg, UniformInfo(Len(cg.uniforms), t))
    /\ mon' = Mon("define_uniform", cg'.ret, t)
    /\ ops' = ops + 1
    /\ UNCHANGED <<out, lk>>

\* r is what write_result leaves: the generator and the module.
WriteResultDone(r) ==
    /\ cg' = r.g
    /\ out' = IF r.g.aborted = "" THEN [n |-> out.n + 1, s |-> r.s] ELSE out

WriteResult(ub) ==
    /\ Alive
    /\ out.n = 0
    /\ WriteResultDone(write_result(cg, ub))
    /\ mon' = Mon("write_result", 0, ub)
    /\ ops' = ops + 1
    /\ UNCHANGED lk

\* One effect is linked: a d3d11_effect_compiler is constructed on the
\* runtime and run on the module written.
Run(library, heap) ==
    /\ Alive
    /\ out.n > 0
    /\ lk.aborted = ""
    /\ Len(lk.runtime.constant_buffers) < MaxLinkRuns
    /\ lk' = run(d3d11_effect_compiler([lk.runtime EXCEPT !.heap = heap]),
                 module(out.s, <<>>), library)
    /\ mon' = Mon("run", 0, library)
    /\ UNCHANGED <<cg, out, ops>>

NextLayout ==
    \/ \E t \in UniformTypes : DefineUniform(t)
    \/ \E ub \in DanglingOutcomes : WriteResult(ub)
    \/ \E library \in Libraries, heap \in HeapOutcomes : Run(library, heap)

SpecLayout == Init /\ [][NextLayout]_vars

\* write_result is called once more on the generator, into a fresh module.
WriteResultAgain(ub) ==
    /\ Alive
    /\ out.n \in 1..(MaxWrites - 1)
    /\ WriteResultDone(write_result(cg, ub))
    /\ mon' = Mon("write_result", 0, ub)
    /\ UNCHANGED <<ops, lk>>

NextWrites ==
    \/ \E t \in UniformTypes : DefineUniform(t)
    \/ \E ub \in DanglingOutcomes : WriteResult(ub)
    \/ \E ub \in DanglingOutcomes : WriteResultAgain(ub)

SpecWrites == Init /\ [][NextWrites]_vars

-----------------------------------------------------------------------------
(* The steps of the frontend that convert types and emit constants.        *)

Pointer(t, qualifiers) == [t EXCEPT !.is_ptr = TRUE, !.qualifiers = qualifiers]

\* The types the frontend converts.
ConvertedTypes ==
    { TFloat, TFloat3, TFloat3x3, TInt, TBool, TFloatArray3,
      [TFloat3 EXCEPT !.qualifiers = {"const"}],
      Pointer(TFloat3, {}), Pointer(TFloat3, {"static"}), Pointer(TFloat, {"uniform"}),
      [Pointer(TFloat3, {}) EXCEPT !.is_input = TRUE] }


\* The constants the frontend emits: a type and its data.
EmittedConstants ==
    { <<TFloat, Constant(<<Float1>>)>>, <<TFloat, Constant(<<>>)>>,
      <<TUint, Constant(<<3>>)>>, <<TBool, Constant(<<1>>)>>,
      <<TFloat3, Constant(<<Float1, 0, Float1>>)>>,
      <<Type("float", 2, 2), Constant(<<Float1, 0, 0, Float1>>)>>,
      <<Type("float", 1, 2), Constant(<<Float1, 1073741824>>)>>,
      <<[TFloat EXCEPT !.array_length = 2],
        ConstantArray(<<Constant(<<Float1>>)>>)>> }

\* The member lists of the structs the frontend defines.
StructMembers ==
    { <<[type |-> TFloat, name |-> Chars("a"), semantic |-> <<>>]>>,
      <<[type |-> TFloat3, name |-> Chars("a"), semantic |-> <<>>],
        [type |-> TInt, name |-> Chars("b"), semantic |-> <<>>]>> }

ConvertType(info) ==
    /\ Building
    /\ ops < MaxInternOps
    /\ cg' = convert_type(cg, info)
    /\ mon' = [Mon("convert_type", cg'.ret, info) EXCEPT
                  !.types = Append(@, [type |-> info, id |-> cg'.ret])]
    /\ ops' = ops + 1
    /\ UNCHANGED <<out, lk>>

EmitConstant(c) ==
    /\ Building
    /\ ops < MaxInternOps
    /\ cg' = emit_constant(cg, c[1], c[2])
    /\ mon' = [Mon("emit_constant", cg'.ret, c) EXCEPT
                  !.constants = Append(@, [type |-> c[1], data |-> c[2], id |-> cg'.ret])]
    /\ ops' = ops + 1
    /\ UNCHANGED <<out, lk>>

\* The parser takes the id of a struct from make_id and defines the struct.
DefineStruct(member_list, ub) ==
    /\ Building
    /\ ops < MaxInternOps
    /\ cg' = define_struct(make_id(cg), NoLocation,
                [definition |-> cg.next_id, unique_name |-> Chars("S"),
                 member_list |-> member_list], ub)
    /\ mon' = Mon("define_struct", cg.next_id, ub)
    /\ ops' = ops + 1
    /\ UNCHANGED <<out, lk>>

\* The parser takes the id of a sampler from make_id and defines the sampler.
DefineSampler ==
    /\ Building
    /\ ops < MaxInternOps
    /\ cg' = define_sampler(make_id(cg), NoLocation,
                [id |-> cg.next_id, unique_name |-> Chars("fx"), set |-> 0,
                 binding |-> 0])
    /\ mon' = Mon("define_sampler", cg.next_id, 0)
    /\ ops' = ops + 1
    /\ UNCHANGED <<out, lk>>

NextIntern ==
    \/ \E info \in ConvertedTypes : ConvertType(info)
    \/ \E c \in EmittedConstants : EmitConstant(c)
    \/ \E member_list \in StructMembers, ub \in DanglingOutcomes :
            DefineStruct(member_list, ub)
    \/ DefineSampler

SpecIntern == Init /\ [][NextIntern]_vars

-----------------------------------------------------------------------------
(* The steps of the frontend that build the body of a function.  The       *)
(* parser enters a function, enters its first block, and calls the emit    *)
(* and leave operations as it reads the statements; the labels and the     *)
(* function ids come from make_id.                                         *)

\* The parser is in a function whose first block has been entered: the
\* block pointer is to the body of this function, or to a block of set_block.
InBody ==
    /\ is_in_function(cg)
    /\ \/ cg.current_block_data = FnRef("definition", cg.current_function + 1)
       \/ cg.current_block_data.k = "blk"

\* The body of the function being built.
FunctionBody(g) ==
    IF is_in_function(g) THEN g.functions2[g.current_function + 1].definition ELSE <<>>

\* The ids of the values the frontend has at hand: the constants emitted.
Values == {cg.constant_lookup[i].id : i \in 1..Len(cg.constant_lookup)}

\* The labels the frontend branches to.
Labels == {cg.current_block, cg.last_block}

\* One more operation of the function being built.
Step(g) ==
    /\ Building
    /\ ops < MaxBlockOps
    /\ cg' = g
    /\ ops' = ops + 1
    /\ UNCHANGED <<out, lk>>

EnterFunction(ret_type) ==
    /\ ~is_in_function(cg)
    /\ Len(cg.functions2) < MaxFunctions
    /\ Step(enter_function(make_id(cg), cg.next_id, ret_type))
    /\ mon' = Mon("enter_function", cg.next_id, ret_type)

LeaveFunction ==
    /\ is_in_function(cg)
    /\ Step(leave_function(cg))
    /\ mon' = Mon("leave_function", 0, 0)

EnterBlock ==
    /\ is_in_function(cg)
    /\ ~is_in_block(cg)
    /\ Step(enter_block(make_id(cg), cg.next_id))
    /\ mon' = Mon("enter_block", cg.next_id, 0)

SetBlock(id) ==
    /\ InBody
    /\ Step(set_block(cg, id))
    /\ mon' = Mon("set_block", 0, id)

LeaveBlockAndKill ==
    /\ InBody
    /\ Step(leave_block_and_kill(cg))
    /\ mon' = Mon("leave_block_and_kill", 0, 0)

LeaveBlockAndReturn(value) ==
    /\ InBody
    /\ Step(leave_block_and_return(cg, value))
    /\ mon' = Mon("leave_block_and_return", 0, value)

\* mon.switch keeps the selector of the switch for emit_switch.
LeaveBlockAndSwitch(value) ==
    /\ InBody
    /\ Step(leave_block_and_switch(cg, value))
    /\ mon' = [Mon("leave_block_and_switch", 0, value) EXCEPT
                  !.switch = IF is_in_block(cg) THEN <<value>> ELSE @]

LeaveBlockAndBranch(target) ==
    /\ InBody
    /\ Step(leave_block_and_branch(cg, target))
    /\ mon' = Mon("leave_block_and_branch", 0, target)

LeaveBlockAndBranchConditional(condition, target) ==
    /\ InBody
    /\ Step(leave_block_and_branch_conditional(cg, condition, target, target))
    /\ mon' = Mon("leave_block_and_branch_conditional", 0, condition)

EmitBinaryOp(op, type, value) ==
    /\ InBody
    /\ Step(emit_binary_op(cg, NoLocation, op, type, type, value, value))
    /\ mon' = Mon("emit_binary_op", cg'.ret, <<op, type>>)

EmitUnaryOp(op, type, value) ==
    /\ InBody
    /\ Step(emit_unary_op(cg, NoLocation, op, type, value))
    /\ mon' = Mon("emit_unary_op", cg'.ret, <<op, type>>)

EmitIf(merge_label) ==
    /\ InBody
    /\ Step(emit_if(cg, merge_label, 0))
    /\ mon' = Mon("emit_if", 0, merge_label)

\* The parser has read the cases of a switch whose selector it branched on
\* with leave_block_and_switch: the labels of the default block, of the one
\* case (of literal 1) and of the merge block are three ids of make_id.
EmitSwitch ==
    /\ InBody
    /\ Len(mon.switch) = 1
    /\ Step(emit_switch(make_id(make_id(make_id(cg))), cg.last_block,
                        cg.next_id, <<1, cg.next_id + 1>>, cg.next_id + 2))
    /\ mon' = [Mon("emit_switch", 0, 0) EXCEPT
                  !.switch = <<>>,
                  !.switches = Append(@, [selector |-> mon.switch[1],
                                          default_label |-> cg.next_id,
                                          case_literal_and_labels |-> <<1, cg.next_id + 1>>,
                                          merge_label |-> cg.next_id + 2,
                                          function |-> cg.current_function + 1])]

EmitValue(c) ==
    /\ Len(cg.constant_lookup) < 1
    /\ Step(emit_constant(cg, c[1], c[2]))
    /\ mon' = Mon("emit_constant", cg'.ret, c)

WriteBlocks(ub) ==
    /\ ~is_in_function(cg)
    /\ WriteResult(ub)

NextBlocks ==
    \/ \E ret_type \in {TVoid, TFloat} : EnterFunction(ret_type)
    \/ LeaveFunction
    \/ EnterBlock
    \/ \E id \in Labels : SetBlock(id)
    \/ LeaveBlockAndKill
    \/ \E value \in Values \cup {0} : LeaveBlockAndReturn(value)
    \/ \E value \in Values : LeaveBlockAndSwitch(value)
    \/ \E target \in Labels : LeaveBlockAndBranch(target)
    \/ \E condition \in Values, target \in Labels :
            LeaveBlockAndBranchConditional(condition, target)
    \/ \E op \in {"plus", "percent"}, value \in Values :
            EmitBinaryOp(op, [TFloat EXCEPT !.qualifiers = {"precise"}], value)
    \/ \E merge_label \in Labels : EmitIf(merge_label)
    \/ EmitSwitch
    \/ \E c \in {<<TFloat, Constant(<<Float1>>)>>} : EmitValue(c)
    \/ \E ub \in {"intact"} : WriteBlocks(ub)

SpecBlocks == Init /\ [][NextBlocks]_vars

-----------------------------------------------------------------------------
(* The steps of the frontend that emit the operators of expressions in the *)
(* body of a function, on types with and without the precise qualifier.    *)

OperatorTypes == {TFloat, [TFloat EXCEPT !.qualifiers = {"precise"}]}

NextOperators ==
    \/ EnterFunction(TFloat)
    \/ EnterBlock
    \/ \E c \in {<<TFloat, Constant(<<Float1>>)>>} : EmitValue(c)
    \/ \E op \in {"minus", "plus_plus", "percent"}, type \in OperatorTypes,
          value \in Values : EmitUnaryOp(op, type, value)
    \/ \E op \in {"plus", "star", "question"}, type \in OperatorTypes,
          value \in Values : EmitBinaryOp(op, type, value)

SpecOperators == Init /\ [][NextOperators]_vars

-----------------------------------------------------------------------------
(* The steps of the frontend that read and write variables: it defines the *)
(* local variables of a function and emits the loads and stores of the     *)
(* access chains the parser builds on them.                                *)

TFloat1x4 == Type("float", 1, 4)

\* expression::operation
Operation(type, from, to, index, swizzle) ==
    [type |-> type, from |-> from, to |-> to, index |-> index, swizzle |-> swizzle]

NoSwizzle == <<-1, -1, -1, -1>>

\* expression::reset_to_lvalue followed by the operations the parser adds.
Lvalue(base, type, chain_ops) ==
    [base |-> base, type |-> Pointer(type, {}), is_lvalue |-> TRUE,
     is_constant |-> FALSE, constant |-> Constant(<<>>), location |-> NoLocation,
     ops |-> chain_ops]

\* The local variables of the function being built, with their types.
Locals ==
    IF ~is_in_function(cg) THEN {}
    ELSE {[id |-> mon.locals[i].id, type |-> mon.locals[i].type] :
            i \in 1..Len(mon.locals)}

\* The access chains the parser builds on variable v with index i: v, v[i],
\* v[0] and v[0][i] of a matrix, v.xy and v.x of a vector.
ChainsOf(v, i) ==
    LET row == [v.type EXCEPT !.rows = v.type.cols, !.cols = 1]
        scalar == [v.type EXCEPT !.rows = 1, !.cols = 1]
        index(from, to) ==
            Operation("op_index", Pointer(from, {}), Pointer(to, {}), i, NoSwizzle)
    IN  {Lvalue(v.id, v.type, <<>>)}
        \cup (IF type_is_vector(v.type)
              THEN {Lvalue(v.id, v.type, <<index(v.type, scalar)>>),
                    Lvalue(v.id, v.type,
                           <<Operation("op_swizzle", v.type,
                                       [v.type EXCEPT !.rows = 2], 0,
                                       <<0, 1, -1, -1>>)>>),
                    Lvalue(v.id, v.type,
                           <<Operation("op_swizzle", v.type, scalar, 0,
                                       <<0, -1, -1, -1>>)>>)}
              ELSE {})
        \cup (IF type_is_matrix(v.type)
              THEN {Lvalue(v.id, v.type, <<index(v.type, row)>>),
                    Lvalue(v.id, v.type, <<index(v.type, row), index(row, scalar)>>)}
              ELSE {})

\* The values an expression that is no lvalue stands for: a constant, and a
\* value that is cast to int.
Rvalues(value) ==
    {[base |-> 0, type |-> TFloat, is_lvalue |-> FALSE, is_constant |-> TRUE,
      constant |-> Constant(<<Float1>>), location |-> NoLocation, ops |-> <<>>],
     [base |-> value, type |-> TInt, is_lvalue |-> FALSE, is_constant |-> FALSE,
      constant |-> Constant(<<>>), location |-> NoLocation,
      ops |-> <<Operation("op_cast", TFloat, TInt, 0, NoSwizzle)>>]}

\* What a read behind the end of chain.ops comes to: the process dies, or
\* the read yields an operation made of the bytes that lie there.
ChainOutcomes ==
    {[outcome |-> o,
      op |-> Operation("op_index", Pointer(TFloat, {}), Pointer(TFloat, {}), 0,
                       NoSwizzle)] : o \in {"crash", "read"}}

\* The parser takes the id of a local variable from make_id.
DefineVariable(type) ==
    /\ InBody
    /\ Len(mon.locals) < MaxLocals
    /\ Step(define_variable_id(make_id(cg), cg.next_id, NoLocation,
                               Pointer(type, {}), <<>>, "Function", 0))
    /\ mon' = [Mon("define_variable", cg.next_id, type) EXCEPT
                  !.locals = Append(@, [id |-> cg.next_id, type |-> type])]

EmitLoad(chain, ub) ==
    /\ InBody
    /\ Step(emit_load(cg, chain, ub))
    /\ mon' = Mon("emit_load", cg'.ret, chain)

EmitStore(chain, value, ub) ==
    /\ InBody
    /\ Step(emit_store(cg, chain, value,
                       [(IF chain.ops = <<>> THEN chain.type
                         ELSE chain.ops[Len(chain.ops)].to) EXCEPT !.is_ptr = FALSE],
                       ub))
    /\ mon' = Mon("emit_store", 0, chain)

NextChains ==
    \/ EnterFunction(TFloat)
    \/ EnterBlock
    \/ \E c \in {<<TFloat, Constant(<<Float1>>)>>} : EmitValue(c)
    \/ \E type \in {TFloat4, TFloat1x4, TFloat4x4} : DefineVariable(type)
    \/ \E i \in Values, ub \in ChainOutcomes :
            \E chain \in UNION {ChainsOf(v, i) : v \in Locals} \cup Rvalues(i) :
                EmitLoad(chain, ub)
    \/ \E v \in Locals, i \in Values, ub \in ChainOutcomes :
            \E chain \in ChainsOf(v, i) : EmitStore(chain, i, ub)

SpecChains == Init /\ [][NextChains]_vars

-----------------------------------------------------------------------------
(* The steps of an effect with entry points: the frontend defines          *)
(* uniforms and a struct, creates entry points for functions, and the      *)
(* module is written.                                                      *)

\* A parameter or struct member: struct_member_info.
Member(t, qualifiers, semantic) ==
    [type |-> [t EXCEPT !.qualifiers = qualifiers], name |-> Chars("a"),
     semantic |-> Chars(semantic)]

\* The members of the struct the entry points pass.
InterfaceStruct ==
    <<Member(TFloat4, {}, "SV_POSITION"), Member(TFloat2, {}, "NORMAL")>>

\* function_info of the function an entry point is created for.
Function(return_type, return_semantic, parameter_list) ==
    [definition |-> 0, entry_block |-> 0, name |-> Chars("main"),
     return_type |-> return_type, return_semantic |-> Chars(return_semantic),
     parameter_list |-> parameter_list]

\* Parameters are lvalues the function body loads from and stores to.
Param(t, qualifiers, semantic) == Member(Pointer(t, {}), qualifiers, semantic)

\* The functions entry points are created for, each with the stage a pass
\* names it for; S is the type of the struct defined, when there is one.
EntryPoints(S) ==
    { <<Function(TVoid, "", <<Param(TFloat4, {"in"}, "NORMAL"),
                              Param(TFloat4, {"out"}, "TANGENT")>>), FALSE>>,
      <<Function(TFloat4, "NORMAL", <<Param(TFloat2, {"in"}, "TANGENT")>>), TRUE>>,
      <<Function(TFloat4, "NORMAL", <<Param(TFloat2, {"in"}, "TANGENT")>>), FALSE>>,
      <<Function(TFloat4, "SV_TARGET", <<Param(TFloat4, {"in"}, "COLORFUL"),
                                         Param(TFloat2, {"in"}, "TEXCOORD2")>>), TRUE>>,
      <<Function(TVoid, "", <<Param(TUint, {"in"}, "SV_VERTEXID"),
                              Param(TFloat4, {"out"}, "SV_POSITION"),
                              Param(TFloat2, {"out"}, "NORMAL")>>), FALSE>>,
      <<Function(TFloat4, "COLOR1", <<>>), TRUE>>,
      <<Function(TFloat4, "SV_TARGET", <<Param(TFloat4, {"in"}, "COLOR"),
                                         Param(TFloat2, {"in"}, "TEXCOORD0")>>), TRUE>>,
      <<Function(TFloat4, "SV_TARGET", <<Param(TFloat4, {"in"}, "NORMAL"),
                                         Param(TFloat2, {"in"}, "TEXCOORD10")>>), TRUE>>,
      <<Function(TFloat, "TANGENT", <<Member(TFloat, {"in"}, "NORMAL")>>), TRUE>> }
    \cup (IF S = {} THEN {}
          ELSE { <<Function(CHOOSE t \in S : TRUE, "",
                            <<Param(CHOOSE t \in S : TRUE, {"in"}, "")>>), FALSE>>,
                 <<Function(TVoid, "",
                            <<Param(CHOOSE t \in S : TRUE, {"out"}, ""),
                              Param(TFloat4, {"in", "noperspective"}, "TANGENT")>>),
                   FALSE>> })

\* The struct types defined so far.
StructTypes ==
    {[Type("struct", 0, 0) EXCEPT !.definition = cg.structs[i].definition] :
        i \in 1..Len(cg.structs)}

\* The semantics of the interface variables create_entry_point creates for
\* func, in the order it creates them.
InterfaceSemantics(g, func) ==
    LET semantics(param) ==
            [k \in 1..Len(flattened(g, param)) |-> flattened(g, param)[k].semantic]
    IN  Flatten([i \in 1..Len(func.parameter_list) |->
                    semantics(func.parameter_list[i])])
        \o (IF type_is_struct(func.return_type)
            THEN semantics([type |-> func.return_type])
            ELSE IF type_is_void(func.return_type) THEN <<>>
            ELSE <<func.return_semantic>>)

\* The parser takes the id of the struct from make_id and defines the struct
\* at a location of the source file.
DefineInterfaceStruct(ub) ==
    /\ Building
    /\ ops < MaxOps
    /\ cg.structs = <<>>
    /\ cg' = define_struct(make_id(cg),
                [source |-> Chars("fx"), line |-> 1, column |-> 1],
                [definition |-> cg.next_id, unique_name |-> Chars("S"),
                 member_list |-> InterfaceStruct], ub)
    /\ mon' = Mon("define_struct", cg.next_id, ub)
    /\ ops' = ops + 1
    /\ UNCHANGED <<out, lk>>

\* The function was defined before under an id the parser took from make_id.
CreateEntryPoint(func, is_ps) ==
    /\ Building
    /\ ops < MaxOps
    /\ cg' = create_entry_point(make_id(cg), [func EXCEPT !.definition = cg.next_id],
                                is_ps)
    /\ mon' = [Mon("create_entry_point", cg'.ret, is_ps) EXCEPT !.entry_points =
                Append(@, [semantics |-> InterfaceSemantics(cg, func),
                           variables |-> cg'.inputs_and_outputs,
                           parameter_list |-> func.parameter_list])]
    /\ ops' = ops + 1
    /\ UNCHANGED <<out, lk>>

Next ==
    \/ ops < MaxOps /\ DefineUniform(TFloat)
    \/ \E ub \in DanglingOutcomes : DefineInterfaceStruct(ub)
    \/ \E e \in EntryPoints(StructTypes) : CreateEntryPoint(e[1], e[2])
    \/ \E ub \in DanglingOutcomes : WriteResult(ub)

Spec == Init /\ [][Next]_vars

-----------------------------------------------------------------------------
(* The steps of an effect compiled with the HLSL generator: the frontend   *)
(* defines textures, samplers, uniforms and techniques in any order, or    *)
(* nothing at all, and the module is written.                              *)

InitHlsl ==
    /\ cg = codegen_hlsl
    /\ out = NoModule
    /\ ops = 0
    /\ mon = [op |-> "init", ret |-> 0, arg |-> 0, types |-> <<>>, constants |-> <<>>,
              switch |-> <<>>, switches |-> <<>>, entry_points |-> <<>>,
              locals |-> <<>>]
    /\ lk = d3d11_effect_compiler(d3d11_runtime)

HlslStep(g) ==
    /\ Building
    /\ ops < MaxHlslOps
    /\ cg' = g
    /\ ops' = ops + 1
    /\ UNCHANGED <<out, lk>>

HlslDefineTexture ==
    /\ HlslStep(hlsl_define_texture([cg EXCEPT !.next_id = @ + 1], NoLocation,
                                    [id |-> cg.next_id, unique_name |-> Chars("a")]))
    /\ mon' = Mon("define_texture", cg.next_id, 0)

HlslDefineSampler(loc) ==
    /\ HlslStep(hlsl_define_sampler([cg EXCEPT !.next_id = @ + 1], loc,
                                    [id |-> cg.next_id, unique_name |-> Chars("S")]))
    /\ mon' = Mon("define_sampler", cg.next_id, 0)

HlslDefineUniform(t) ==
    /\ HlslStep(hlsl_define_uniform(cg, NoLocation, UniformInfo(Len(cg.uniforms), t)))
    /\ mon' = Mon("define_uniform", -1, t)

HlslDefineTechnique ==
    /\ HlslStep(hlsl_define_technique(cg, NoLocation,
                                      [name |-> Chars("main"), passes |-> <<>>]))
    /\ mon' = Mon("define_technique", 0, 0)

HlslWriteResult ==
    /\ Alive
    /\ out.n = 0
    /\ WriteResultDone(hlsl_write_result(cg))
    /\ mon' = Mon("write_result", 0, 0)
    /\ ops' = ops + 1
    /\ UNCHANGED lk

NextHlsl ==
    \/ HlslDefineTexture
    \/ \E loc \in {NoLocation, [source |-> Chars("fx"), line |-> 1, column |-> 1]} :
            HlslDefineSampler(loc)
    \/ \E t \in {TFloat, TFloat3, TFloat4x4, TInt} : HlslDefineUniform(t)
    \/ HlslDefineTechnique
    \/ HlslWriteResult

SpecHlsl == InitHlsl /\ [][NextHlsl]_vars

-----------------------------------------------------------------------------
(* The effects the linker is run on, one after the other on the same       *)
(* runtime, and what the device and the compiler library answer.           *)

Texture(name, semantic, width, height, levels, format) ==
    [ unique_name |-> Chars(name), semantic |-> Chars(semantic),
      width |-> width, height |-> height, levels |-> levels, format |-> format ]

\* A square texture of one level.
TextureInfo(name, semantic, width, format) ==
    Texture(name, semantic, width, width, 1, format)

\* The descriptors of the samplers, floats by their bits: point filtering,
\* wrap, bias 2.0, LOD 0.0 to 6.0; point/linear-mip filtering, mirror-once,
\* border, wrap, LOD 3.0 to 3.0; linear filtering, clamp, LOD 0.0 to 1.0.
SamplerDescs ==
    <<[filter |-> 0, address_u |-> 1, address_v |-> 1, address_w |-> 1,
       lod_bias |-> 1073741824, min_lod |-> 0, max_lod |-> 1086324736],
      [filter |-> 1, address_u |-> 5, address_v |-> 4, address_w |-> 1,
       lod_bias |-> 0, min_lod |-> 1077936128, max_lod |-> 1077936128],
      [filter |-> 21, address_u |-> 3, address_v |-> 3, address_w |-> 3,
       lod_bias |-> 0, min_lod |-> 0, max_lod |-> 1065353216]>>

SamplerInfo(texture_name, d, binding, srgb) ==
    [ texture_name |-> Chars(texture_name), binding |-> binding, srgb |-> srgb,
      filter |-> SamplerDescs[d].filter, address_u |-> SamplerDescs[d].address_u,
      address_v |-> SamplerDescs[d].address_v, address_w |-> SamplerDescs[d].address_w,
      lod_bias |-> SamplerDescs[d].lod_bias, min_lod |-> SamplerDescs[d].min_lod,
      max_lod |-> SamplerDescs[d].max_lod ]

PassInfo(render_targets, srgb_write_enable) ==
    [ vs_entry_point |-> Chars("VS"), ps_entry_point |-> Chars("PS"),
      render_target_names |->
        [k \in 1..RenderTargets |->
            IF k <= Len(render_targets) THEN Chars(render_targets[k]) ELSE <<>>],
      srgb_write_enable |-> srgb_write_enable, clear_render_targets |-> FALSE ]

TechniqueInfo(passes) == [name |-> Chars("main"), passes |-> passes]

BothEntryPoints ==
    <<[first |-> Chars("VS"), second |-> FALSE], [first |-> Chars("PS"), second |-> TRUE]>>

Effect(entry_points, textures, samplers, uniforms, techniques) ==
    [ entry_points |-> entry_points, textures |-> textures, samplers |-> samplers,
      uniforms |-> uniforms, techniques |-> techniques ]

\* The effects linked.
Effects ==
    << \* a pass that draws to the texture it samples, and a pass that does not
       Effect(BothEntryPoints, <<TextureInfo("a", "", 64, "rgba8")>>,
              <<SamplerInfo("a", 1, 0, FALSE)>>,
              <<UniformInfo(0, TFloat4)>>,
              <<TechniqueInfo(<<PassInfo(<<"a">>, FALSE), PassInfo(<<>>, FALSE)>>)>>),
       \* the same texture again and a second one; two more descriptors
       Effect(BothEntryPoints,
              <<TextureInfo("a", "", 64, "rgba8"), TextureInfo("b", "", 32, "r8")>>,
              <<SamplerInfo("a", 2, 0, TRUE), SamplerInfo("b", 3, 2, FALSE)>>,
              <<>>,
              <<TechniqueInfo(<<PassInfo(<<"", "b">>, TRUE)>>)>>),
       \* the texture with another width, another height, another number of
       \* levels, another format, and as it was; two descriptors in one effect
       Effect(BothEntryPoints,
              <<Texture("a", "", 32, 64, 1, "rgba8"), Texture("a", "", 64, 32, 1, "rgba8"),
                Texture("a", "", 64, 64, 2, "rgba8"), Texture("a", "", 64, 64, 1, "r8"),
                Texture("a", "", 64, 64, 1, "rgba8")>>,
              <<SamplerInfo("a", 1, 0, FALSE), SamplerInfo("a", 2, 1, FALSE)>>,
              <<>>, <<>>),
       \* the texture as the back buffer, with other dimensions, drawn to
       Effect(BothEntryPoints,
              <<TextureInfo("a", "COLOR", 32, "rgba8")>>,
              <<SamplerInfo("a", 3, 0, FALSE)>>,
              <<>>,
              <<TechniqueInfo(<<PassInfo(<<"a">>, FALSE)>>)>>),
       \* render targets of two sizes, after a technique without them
       Effect(BothEntryPoints,
              <<TextureInfo("a", "", 64, "rgba8"), TextureInfo("b", "", 32, "r8")>>,
              <<SamplerInfo("b", 1, 1, FALSE)>>,
              <<UniformInfo(0, TFloat)>>,
              <<TechniqueInfo(<<PassInfo(<<"b">>, FALSE)>>),
                TechniqueInfo(<<PassInfo(<<"a", "b">>, FALSE)>>)>>),
       \* a semantic that names no buffer, and a pass whose pixel shader is
       \* no entry point of the module
       Effect(<<[first |-> Chars("VS"), second |-> FALSE]>>,
              <<TextureInfo("c", "NORMAL", 32, "r8")>>, <<>>, <<>>,
              <<TechniqueInfo(<<PassInfo(<<>>, FALSE)>>)>>),
       \* two techniques over the uniforms of one module
       Effect(BothEntryPoints, <<>>, <<>>,
              <<UniformInfo(0, TFloat3)>>,
              <<TechniqueInfo(<<PassInfo(<<>>, FALSE)>>),
                TechniqueInfo(<<PassInfo(<<>>, FALSE)>>)>>) >>

Environment(library, fails, broken) ==
    [library |-> library, fails |-> fails, broken |-> broken]

\* What the compiler library and the device answer during one run: all
\* succeeds, no library loads, one kind of call fails, or the text of an
\* entry point does not compile.
Environments ==
    {Environment("47", {}, {}), Environment("none", {}, {})}
    \cup {Environment("47", {call}, {}) :
            call \in {"CreateShader", "CreateTexture2D", "CreateShaderResourceView",
                      "CreateSamplerState", "CreateRenderTargetView",
                      "CreateDepthStencilState"}}
    \cup {Environment("43", {}, {name}) : name \in {Chars("VS"), Chars("PS")}}

InitLink ==
    /\ cg = codegen_hlsl
    /\ out = NoModule
    /\ ops = 0
    /\ mon = [op |-> "init", ret |-> 0, arg |-> 0, types |-> <<>>, constants |-> <<>>,
              switch |-> <<>>, switches |-> <<>>, entry_points |-> <<>>,
              locals |-> <<>>]
    /\ lk \in {d3d11_effect_compiler([d3d11_runtime EXCEPT !.build = b, !.size_t = w]) :
                    b \in Builds, w \in {2, 4}}

\* One effect is linked: a d3d11_effect_compiler is constructed on the
\* runtime and run on the module of the effect.
Link(e, environment) ==
    /\ ops < MaxLinks
    /\ lk.aborted = ""
    /\ lk' = run(d3d11_effect_compiler(
                    [lk.runtime EXCEPT !.device.fails = environment.fails,
                                       !.device.broken = environment.broken]),
                 Effects[e], environment.library)
    /\ mon' = Mon("run", 0, e)
    /\ ops' = ops + 1
    /\ UNCHANGED <<cg, out>>

NextLink ==
    \E e \in 1..Len(Effects), environment \in Environments : Link(e, environment)

SpecLink == InitLink /\ [][NextLink]_vars

-----------------------------------------------------------------------------
(* The steps of the frontend that name ids: a null-terminated string is    *)
(* handed to add_name, which packs it into the operands of an OpName.      *)

\* The bytes a C string is made of are not zero.
StringBytes == {65, 127}

Strings == UNION {[1..n -> StringBytes] : n \in 0..MaxStringLen}

AddName(name) ==
    /\ Building
    /\ Len(cg.debug_b) < MaxNames
    /\ cg' = add_name(make_id(cg), cg.next_id, name)
    /\ mon' = Mon("add_name", cg.next_id, name)
    /\ ops' = ops + 1
    /\ UNCHANGED <<out, lk>>

NextStrings == \E name \in Strings : AddName(name)

SpecStrings == Init /\ [][NextStrings]_vars

-----------------------------------------------------------------------------
(* The layout of the uniforms (SpecLayout).                                *)

UniformOffsets(uniforms) == [i \in 1..Len(uniforms) |-> uniforms[i].offset]
UniformBases(uniforms) ==
    [i \in 1..Len(uniforms) |-> <<uniforms[i].type.base, uniforms[i].type.rows,
                                  uniforms[i].type.cols, uniforms[i].type.array_length>>]

\* The uniforms float a, float3 b, float c have been defined, in that order.
C1_FloatFloat3Float ==
    /\ UniformBases(cg.uniforms)
         = << <<"float", 1, 1, 0>>, <<"float", 3, 1, 0>>, <<"float", 1, 1, 0>> >>
    /\ [i \in 1..Len(cg.uniforms) |-> cg.uniforms[i].name]
         = <<Chars("a"), Chars("b"), Chars("c")>>

\* C1: defining float a, float3 b, float c in that order on a fresh generator
\* gives them the byte offsets 0, 16 and 28, and the uniform block, rounded
\* up to 16 bytes by the linker, has size 32.
C1_OffsetsAsStated ==
    C1_FloatFloat3Float =>
        /\ UniformOffsets(cg.uniforms) = <<0, 16, 28>>
        /\ lk.returned = "true" => lk.constant_buffer_size = 32

\* What the code computes for the uniforms of C1.
C1_OffsetsOfTheCode ==
    C1_FloatFloat3Float =>
        /\ UniformOffsets(cg.uniforms) = <<0, 16, 32>>
        /\ lk.returned = "true" => lk.constant_buffer_size = 48

C1_Linked == C1_FloatFloat3Float /\ lk.returned = "true"

\* The size, and alignment, of a uniform of type t as C2 states it.
C2_Size(t) ==
    4 * (IF t.rows = 3 THEN 4 ELSE t.rows) * t.cols
      * (IF t.array_length > 1 THEN t.array_length ELSE 1)

\* C2: after any sequence of define_uniform calls every uniform's offset is
\* a multiple of its alignment, which is its size; and once the linker has
\* run on the module, no uniform ends beyond the size of the constant buffer
\* and that size is a multiple of 16.
C2_UniformLayout ==
    /\ \A i \in 1..Len(cg.uniforms) :
          cg.uniforms[i].offset % C2_Size(cg.uniforms[i].type) = 0
    /\ lk.returned = "true" =>
          /\ lk.constant_buffer_size % 16 = 0
          /\ \A i \in 1..Len(out.s.uniforms) :
                out.s.uniforms[i].offset + C2_Size(out.s.uniforms[i].type)
                    <= lk.constant_buffer_size

\* A module of three uniforms with padding before the second and the third
\* has been linked.
C2_PaddedAndLinked ==
    /\ lk.returned = "true"
    /\ Len(out.s.uniforms) = 3
    /\ \A i \in 2..3 :
          out.s.uniforms[i].offset
            > out.s.uniforms[i - 1].offset + C2_Size(out.s.uniforms[i - 1].type)

-----------------------------------------------------------------------------
(* Interning of types and constants (SpecIntern).                          *)

\* The types structurally equal to t that differ from it in the qualifiers:
\* the qualifiers that do not decide the storage class of a pointer, and for
\* a type that is no pointer all of them.
C3_EqualTypes(t) ==
    { [t EXCEPT !.qualifiers = @ \cup q] :
        q \in IF t.is_ptr THEN {{}, {"const"}} ELSE {{}, {"const"}, {"uniform"}} }

\* g1 is the generator after a call made in the current state: the call
\* returned id and left the type and constant section as it was.
ReturnsAndAddsNothing(g1, id) ==
    /\ g1.aborted = ""
    /\ g1.ret = id
    /\ g1.types_and_constants = cg.types_and_constants

\* C3: in every state the generator reaches, convert_type called with a type
\* structurally equal to one it has converted before returns the id it
\* returned then and adds no instruction to the type and constant section.
C3_TypeInterning ==
    Alive =>
        \A i \in 1..Len(mon.types) : \A t \in C3_EqualTypes(mon.types[i].type) :
            ReturnsAndAddsNothing(convert_type(cg, t), mon.types[i].id)

\* A vector type and a pointer type have been converted, and the frontend
\* has converted the first of them again after other operations.
C3_ConvertedAgain ==
    /\ Alive
    /\ Len(mon.types) = 3
    /\ mon.types[1].type = mon.types[3].type
    /\ mon.types[1].id = mon.types[3].id
    /\ type_is_vector(mon.types[1].type)
    /\ mon.types[2].type.is_ptr

\* C4: in every state the generator reaches, emit_constant called with a
\* type that is no pointer and data it has been called with before returns
\* the id it returned then and adds no instruction.
C4_ConstantInterning ==
    Alive =>
        \A i \in 1..Len(mon.constants) :
            ReturnsAndAddsNothing(
                emit_constant(cg, mon.constants[i].type, mon.constants[i].data),
                mon.constants[i].id)

\* A matrix constant has been emitted, then another constant, then the
\* matrix constant again.
C4_EmittedAgain ==
    /\ Alive
    /\ Len(mon.constants) = 3
    /\ type_is_matrix(mon.constants[1].type)
    /\ mon.constants[1].type.rows > 1
    /\ mon.constants[3].type = mon.constants[1].type
    /\ mon.constants[3].data = mon.constants[1].data
    /\ mon.constants[3].id = mon.constants[1].id
    /\ mon.constants[2].id # mon.constants[1].id

-----------------------------------------------------------------------------
(* The bodies of functions (SpecBlocks).                                   *)

Terminators ==
    {"OpKill", "OpReturn", "OpReturnValue", "OpSwitch", "OpBranch", "OpBranchConditional"}

LeaveBlockOperations ==
    {"leave_block_and_kill", "leave_block_and_return", "leave_block_and_switch",
     "leave_block_and_branch", "leave_block_and_branch_conditional"}

EmitOperations == {"emit_binary_op", "emit_if", "emit_switch", "emit_constant"}

\* The last instruction of the body of the function being built is the
\* terminator a leave_block_and_* operation has added.
BlockTerminated ==
    /\ Alive
    /\ ~is_in_block(cg)
    /\ FunctionBody(cg) # <<>>
    /\ FunctionBody(cg)[Len(FunctionBody(cg))].op \in Terminators

\* C7: once a leave_block_and_* operation has terminated the current block,
\* no leave_block_and_* and no emit_* operation adds an instruction to the
\* function body (until enter_block): a step of one of these operations
\* that the process survives leaves the body as it was.
C7_NothingAfterTerminator ==
    [][(BlockTerminated /\ cg'.aborted = ""
            /\ mon'.op \in LeaveBlockOperations \cup EmitOperations)
        => FunctionBody(cg') = FunctionBody(cg)]_vars

\* The part of C7 about the leave_block_and_* operations: after a
\* terminator they add nothing, so no block gets a second terminator.
C7_NoSecondTerminator ==
    [][(BlockTerminated /\ cg'.aborted = "" /\ mon'.op \in LeaveBlockOperations)
        => FunctionBody(cg') = FunctionBody(cg)]_vars

\* The switches of the module written are those the frontend lowered; the
\* instructions at k and k + 1 are what C8 states for the switch sw.
C8_Lowered(instructions, k, sw) ==
    /\ instructions[k].op = "OpSelectionMerge"
    /\ Len(instructions[k].operands) >= 1
    /\ instructions[k].operands[1] = sw.merge_label
    /\ instructions[k + 1].op = "OpSwitch"
    /\ instructions[k + 1].operands
         = <<sw.selector, sw.default_label>> \o sw.case_literal_and_labels

\* C8: for every switch lowered with leave_block_and_switch and emit_switch
\* the module written has an OpSelectionMerge naming the merge label,
\* followed by an OpSwitch of the selector, the default label and the case
\* literals and labels.
C8_SwitchAsStated ==
    out.n > 0 =>
        \A i \in 1..Len(mon.switches) :
            \E k \in 1..(Len(out.s.instructions) - 1) :
                C8_Lowered(out.s.instructions, k, mon.switches[i])

\* What the module written has for a switch: an OpSwitch of the selector
\* alone, and no OpSelectionMerge at all.
C8_SwitchOfTheCode ==
    out.n > 0 =>
        /\ \A k \in 1..Len(out.s.instructions) :
              /\ out.s.instructions[k].op = "OpSwitch" =>
                    Len(out.s.instructions[k].operands) = 1
              /\ out.s.instructions[k].op = "OpSelectionMerge" =>
                    mon.switches = <<>> \/ Len(out.s.instructions[k].operands) = 2
        /\ mon.switches # <<>> =>
              \E k \in 1..Len(out.s.instructions) :
                  out.s.instructions[k].op = "OpSwitch"

-----------------------------------------------------------------------------
(* C5: the header of the module.                                           *)

\* The ids among the operands of an instruction.
OperandIds(ins) ==
    CASE ins.op \in {"OpTypeStruct", "OpTypeFunction", "OpTypeArray", "OpTypeSampledImage",
                     "OpConstantComposite", "OpLoad", "OpStore", "OpFunctionCall",
                     "OpCompositeConstruct", "OpReturnValue"} -> Range(ins.operands)
      [] ins.op \in {"OpName", "OpMemberName", "OpDecorate", "OpMemberDecorate",
                     "OpTypeVector", "OpTypeMatrix", "OpTypeImage", "OpLine",
                     "OpCompositeExtract"} -> {ins.operands[1]}
      [] ins.op \in {"OpTypePointer", "OpFunction", "OpEntryPoint"} -> {ins.operands[2]}
      [] ins.op = "OpVariable" -> Range(Tail(ins.operands))
      [] OTHER -> {}

\* The ids a module uses: the result and type ids and the id operands of its
\* instructions.
IdsUsed(instructions) ==
    UNION {{instructions[i].type, instructions[i].result} \cup OperandIds(instructions[i]) :
            i \in 1..Len(instructions)}

\* C5: every module write_result has serialized starts with the word
\* 0x07230203, and its id-bound word (the fourth) is the largest id used
\* anywhere in the module plus one, the ids write_result allocates for the
\* $Globals block included.
C5_MagicAndIdBound ==
    out.n > 0 =>
        /\ out.s.spirv[1] = 119734787
        /\ \A id \in IdsUsed(out.s.instructions) : id < out.s.spirv[4]
        /\ out.s.spirv[4] - 1 \in IdsUsed(out.s.instructions)

\* A module with uniforms and an entry point has been written, and the id
\* write_result allocated for the pointer type of the $Globals variable is
\* the largest.
C5_WrittenWithGlobals ==
    /\ out.n > 0
    /\ Len(cg.uniforms) > 0
    /\ Len(mon.entry_points) > 0
    /\ \E i \in 1..Len(cg.variables) :
        /\ cg.variables[i].result = cg.global_ubo_variable
        /\ cg.variables[i].type = out.s.spirv[4] - 1
        /\ cg.variables[i].type > 20

-----------------------------------------------------------------------------
(* C6: the $Globals block of an effect without uniforms.                   *)

\* C6: a module written by a generator on which define_uniform was never
\* called has no name $Globals, no Block, Binding or DescriptorSet
\* decoration and no variable of storage class Uniform; the module of the
\* empty effect holds the two capabilities, the extension, the import and
\* the memory model only.
C6_NoGlobalsWithoutUniforms ==
    (out.n > 0 /\ cg.uniforms = <<>>) =>
        /\ \A i \in 1..Len(out.s.instructions) :
            LET ins == out.s.instructions[i]
            IN  /\ ~(ins.op = "OpName" /\ Tail(ins.operands) = add_string(Chars("$Globals")))
                /\ ~(ins.op = "OpDecorate" /\ ins.operands[2] \in {2, 33, 34})
                /\ ~(ins.op = "OpVariable" /\ ins.operands[1] = 2)
        /\ (ops = 1 => Len(out.s.instructions) = 5)

-----------------------------------------------------------------------------
(* C9: the locations of interface variables.                               *)

\* The interface variables of all entry points in the order they were
\* created, each with its semantic and the entry point it belongs to.
C9_Interface ==
    Flatten([e \in 1..Len(mon.entry_points) |->
                [k \in 1..Len(mon.entry_points[e].variables) |->
                    [semantic |-> mon.entry_points[e].semantics[k],
                     variable |-> mon.entry_points[e].variables[k],
                     entry |-> e]]])

C9_Builtin(semantic) ==
    semantic \in {Chars("SV_POSITION"), Chars("SV_POINTSIZE"), Chars("SV_DEPTH"),
                  Chars("VERTEXID"), Chars("SV_VERTEXID")}

\* Whether a semantic is one of COLORn, SV_TARGETn, TEXCOORDn: with numbered,
\* n is a decimal number (or nothing); without, anything may follow the name.
C9_Explicit(semantic, numbered) ==
    \E name \in {Chars("COLOR"), Chars("SV_TARGET"), Chars("TEXCOORD")} :
        /\ Len(semantic) >= Len(name)
        /\ SubSeq(semantic, 1, Len(name)) = name
        /\ numbered => \A k \in (Len(name) + 1)..Len(semantic) : semantic[k] \in 48..57

C9_Auto(semantic, numbered) ==
    ~C9_Builtin(semantic) /\ ~C9_Explicit(semantic, numbered)

\* The Location decorations of a variable.
C9_Locations(variable) ==
    {cg.annotations[i].operands[3] :
        i \in {k \in 1..Len(cg.annotations) :
                /\ cg.annotations[k].op = "OpDecorate"
                /\ cg.annotations[k].operands[1] = variable
                /\ cg.annotations[k].operands[2] = 30}}

\* Each auto-assigned variable has the one Location 10 + the number of
\* distinct auto-assigned semantics seen before its semantic was first seen.
C9_Assigned(interface, numbered) ==
    \A j \in 1..Len(interface) :
        C9_Auto(interface[j].semantic, numbered) =>
            C9_Locations(interface[j].variable) =
                {10 + Cardinality({interface[i].semantic :
                        i \in {k \in 1..(j - 1) :
                                /\ C9_Auto(interface[k].semantic, numbered)
                                /\ \A h \in 1..k :
                                    interface[h].semantic # interface[j].semantic}})}

\* C9 as stated: across the entry points created on one generator, the
\* first semantic that is neither a builtin nor COLORn, SV_TARGETn or
\* TEXCOORDn (n a number) gets Location 10, each further distinct one the
\* next integer, and the same semantic the same Location on inputs, outputs
\* and return values of every entry point.
C9_AutoLocationsAsStated ==
    Alive => C9_Assigned(C9_Interface, TRUE)

\* C9 amended: the same for the semantics that are neither a builtin nor
\* begin with COLOR, SV_TARGET or TEXCOORD.
C9_AutoLocations ==
    Alive => C9_Assigned(C9_Interface, FALSE)

\* The storage class of an interface variable.
C9_Storage(variable) ==
    {cg.variables[i].operands[1] :
        i \in {k \in 1..Len(cg.variables) : cg.variables[k].result = variable}}

\* One auto-assigned semantic is on an input of one entry point and on an
\* output of another, and a second auto-assigned semantic has Location 11.
C9_SharedAcrossEntryPoints ==
    /\ Alive
    /\ \E i, j \in 1..Len(C9_Interface) :
        /\ C9_Interface[i].entry # C9_Interface[j].entry
        /\ C9_Interface[i].semantic = C9_Interface[j].semantic
        /\ C9_Auto(C9_Interface[i].semantic, FALSE)
        /\ C9_Storage(C9_Interface[i].variable) = {1}
        /\ C9_Storage(C9_Interface[j].variable) = {3}
        /\ C9_Locations(C9_Interface[i].variable) = C9_Locations(C9_Interface[j].variable)
    /\ \E k \in 1..Len(C9_Interface) : C9_Locations(C9_Interface[k].variable) = {11}

-----------------------------------------------------------------------------
(* C10: the order of the sections in the word stream.                      *)

\* The instructions of a word stream from word i on: the opcode of each and,
\* for an OpVariable of four words or more, its storage class.
RECURSIVE C10_Decode(_, _)
C10_Decode(words, i) ==
    IF i > Len(words) \/ words[i] \div 65536 = 0 THEN <<>>
    ELSE <<[op |-> words[i] % 65536,
            storage |-> IF words[i] % 65536 = 59 /\ words[i] \div 65536 >= 4
                        THEN words[i + 3] ELSE 0]>>
         \o C10_Decode(words, i + (words[i] \div 65536))

\* The section an instruction belongs to, by its opcode: 1 capabilities,
\* 2 extension, 3 extended-instruction import, 4 memory model, 5 entry
\* points, 6 debug strings, 7 names, 8 decorations, 9 types and constants,
\* 10 global variables, 11 functions.  OpLine (8) marks the source line of
\* the instruction after it wherever that stands, and has no section (0).
C10_Section(ins) ==
    CASE ins.op = 17 -> 1
      [] ins.op = 10 -> 2
      [] ins.op = 11 -> 3
      [] ins.op = 14 -> 4
      [] ins.op = 15 -> 5
      [] ins.op = 7 -> 6
      [] ins.op \in {5, 6} -> 7
      [] ins.op \in {71, 72} -> 8
      [] ins.op \in {1} \cup (19..46) -> 9
      [] ins.op = 59 /\ ins.storage # 7 -> 10
      [] ins.op = 8 -> 0
      [] OTHER -> 11

\* Whether, from instruction k on, no instruction stands in a section before
\* `last`, the section of the instructions before it.
RECURSIVE C10_Ordered(_, _, _)
C10_Ordered(instructions, k, last) ==
    IF k > Len(instructions) THEN TRUE
    ELSE IF C10_Section(instructions[k]) = 0
    THEN C10_Ordered(instructions, k + 1, last)
    ELSE /\ C10_Section(instructions[k]) >= last
         /\ C10_Ordered(instructions, k + 1, C10_Section(instructions[k]))

\* C10: in whatever order the operations were called, the instructions of
\* the word stream written stand in the order capabilities, extension,
\* extended-instruction import, memory model, entry points, debug strings,
\* names, decorations, types and constants, global variables, functions:
\* none of a later section stands before one of an earlier section.
C10_SectionOrder ==
    out.n > 0 => C10_Ordered(C10_Decode(out.s.spirv, 6), 1, 0)

\* A module in which every section has an instruction has been written.
C10_EverySectionWritten ==
    /\ out.n > 0
    /\ {C10_Section(C10_Decode(out.s.spirv, 6)[i]) :
            i \in 1..Len(C10_Decode(out.s.spirv, 6))} = 0..11

-----------------------------------------------------------------------------
(* C11: the words of a string.                                             *)

\* Byte i (from 0) of a sequence of words, lowest byte of a word first.
C11_Byte(words, i) == (words[(i \div 4) + 1] \div Pow2(8 * (i % 4))) % 256

\* The words are those of the string: floor(L/4)+1 of them, the bytes of
\* the string in order, and zero in every byte after them.
C11_Packed(bytes, words) ==
    /\ Len(words) = (Len(bytes) \div 4) + 1
    /\ \A i \in 0..(Len(bytes) - 1) : C11_Byte(words, i) = bytes[i + 1]
    /\ \A i \in Len(bytes)..(4 * Len(words) - 1) : C11_Byte(words, i) = 0

\* C11: for a string of any length L, L = 0 and L a multiple of 4 included,
\* add_string appends floor(L/4)+1 words, byte i of the string is in bits
\* 8*(i mod 4) of word floor(i/4), and every other byte is zero, so at
\* least one NUL byte follows the string: checked on the operands of every
\* OpName that add_name appended, after the id it names.
C11_StringWords ==
    mon.op = "add_name" =>
        LET name == cg.debug_b[Len(cg.debug_b)]
        IN  /\ name.op = "OpName"
            /\ name.operands[1] = mon.ret
            /\ C11_Packed(mon.arg, Tail(name.operands))

\* A name of four bytes has been added: a string that fills its last word.
C11_FullWordNamed ==
    /\ mon.op = "add_name"
    /\ Len(mon.arg) = 4
    /\ Len(cg.debug_b[Len(cg.debug_b)].operands) = 3

-----------------------------------------------------------------------------
(* C12: the NoContraction decoration of precise results.                   *)

C12_Decorated(id) ==
    \E i \in 1..Len(cg.annotations) :
        /\ cg.annotations[i].op = "OpDecorate"
        /\ cg.annotations[i].operands = <<id, spv_Decoration("NoContraction")>>

\* The operator just emitted returned a result id.
C12_Emitted(operations) == Alive /\ mon.op \in operations /\ mon.ret # 0

\* C12: every emit_binary_op and every emit_unary_op whose result type is
\* precise adds an OpDecorate NoContraction on the id it returns, and none
\* when the result type is not precise.
C12_PreciseAsStated ==
    C12_Emitted({"emit_binary_op", "emit_unary_op"}) =>
        (C12_Decorated(mon.ret) <=> type_has(mon.arg[2], "precise"))

\* What the code does: emit_binary_op decorates exactly the precise results,
\* emit_unary_op decorates none.
C12_PreciseOfTheCode ==
    /\ C12_Emitted({"emit_binary_op"}) =>
            (C12_Decorated(mon.ret) <=> type_has(mon.arg[2], "precise"))
    /\ C12_Emitted({"emit_unary_op"}) => ~C12_Decorated(mon.ret)

\* A unary operator on a precise type has been emitted.
C12_PreciseUnary ==
    C12_Emitted({"emit_unary_op"}) /\ type_has(mon.arg[2], "precise")

-----------------------------------------------------------------------------
(* C13: write_result of the HLSL generator on the empty effect.            *)

\* write_result was called on a generator that received no operation.
C13_EmptyEffect == mon.op = "write_result" /\ ops = 1

\* C13: write_result on an HLSL generator that received no operation
\* completes normally and yields a module whose HLSL text is the empty
\* string.
C13_EmptyEffectWritten ==
    C13_EmptyEffect => (cg.aborted = "" /\ out.n = 1 /\ out.s.hlsl = <<>>)

\* What the code does: write_result completes exactly when some operation
\* wrote to block 0, and the text is then that block's.
C13_WrittenIffBlock ==
    mon.op = "write_result" =>
        IF hlsl_has_block(cg, 0)
        THEN cg.aborted = "" /\ out.n = 1 /\ out.s.hlsl = hlsl_block(cg, 0)
        ELSE cg.aborted = "out_of_range" /\ out.n = 0

-----------------------------------------------------------------------------
(* The linker (SpecLink).                                                  *)

\* The effect the last run linked.
Linked == Effects[mon.arg]

\* The run just made got as far as compiling the entry points.
Compiling == mon.op = "run" /\ lk.library # "none"

\* Some entry point of the effect linked failed to compile or to become a
\* shader.
CompileFailed ==
    /\ Compiling
    /\ \E i \in 1..Len(Linked.entry_points) :
            \/ Linked.entry_points[i].first \in lk.runtime.device.broken
            \/ "CreateShader" \in lk.runtime.device.fails

\* C14: a run compiles every entry point of the module, also after one
\* failed; when one fails it returns false without any resource setup: the
\* textures, uniforms, techniques, sampler states, constant buffers and
\* the size of the uniform arena of the runtime are as before the run, and
\* no sampler or texture binding was made.
C14_CompileAllThenStop ==
    [][ /\ Compiling' =>
            lk'.compiled = [i \in 1..Len(Linked'.entry_points) |->
                                Linked'.entry_points[i].first]
        /\ CompileFailed' =>
            /\ lk'.returned = "false"
            /\ lk'.runtime.textures = lk.runtime.textures
            /\ lk'.runtime.uniforms = lk.runtime.uniforms
            /\ lk'.runtime.techniques = lk.runtime.techniques
            /\ lk'.runtime.effect_sampler_states = lk.runtime.effect_sampler_states
            /\ lk'.runtime.uniform_value_storage = lk.runtime.uniform_value_storage
            /\ lk'.runtime.constant_buffers = lk.runtime.constant_buffers
            /\ lk'.sampler_bindings = <<>> /\ lk'.texture_bindings = <<>> ]_vars

\* The first of two entry points did not compile and the second was
\* compiled all the same, in a run on a runtime that held resources.
C14_SecondCompiledAfterFailure ==
    /\ CompileFailed
    /\ Linked.entry_points[1].first \in lk.runtime.device.broken
    /\ Len(lk.compiled) = 2
    /\ lk.runtime.textures # <<>>

-----------------------------------------------------------------------------
(* C15: the textures an effect declares again.                             *)

AlreadyCreated ==
    [severity |-> "error",
     message |-> "already created a texture with the same name but different dimensions"]

\* How often the run reported a message.
Reported(l, m) == Cardinality({i \in 1..Len(l.errors) : l.errors[i] = m})

\* The textures of the effect that differ, in one of the four fields, from
\* the texture of their name in runtime r.
Differing(r, textures) ==
    {i \in 1..Len(textures) :
        different_dimensions_any_semantic(
            r.textures[find_texture(r, textures[i].unique_name)], textures[i])}

\* The dimensions the registry keeps of its textures.
Dimensions(r) ==
    [i \in 1..Len(r.textures) |->
        <<r.textures[i].unique_name, r.textures[i].width, r.textures[i].height,
          r.textures[i].levels, r.textures[i].format>>]

\* A run, made from the state before this step, visits the textures of the
\* effect, and the runtime held a texture of every one of their names.
Redeclaring ==
    /\ Compiling' /\ ~CompileFailed'
    /\ Linked'.textures # <<>>
    /\ \A i \in 1..Len(Linked'.textures) :
            find_texture(lk.runtime, Linked'.textures[i].unique_name) # 0

C15_FourFieldsReported ==
    /\ Compiling /\ ~CompileFailed /\ mon.arg = 3
    /\ Reported(lk, AlreadyCreated) = 4
    /\ ~lk.success
    /\ Dimensions(lk.runtime) = <<<<Chars("a"), 64, 64, 1, "rgba8">>>>

-----------------------------------------------------------------------------
(* C16: what a run does to the entries the stores of the runtime held      *)
(* before it.                                                              *)

\* The entries of old are the first entries of new, as they were.
Kept(old, new) ==
    /\ Len(new) >= Len(old)
    /\ \A i \in 1..Len(old) : new[i] = old[i]

\* The same for the textures, but for the render target views they cache.
KeptButViews(old, new) ==
    /\ Len(new) >= Len(old)
    /\ \A i \in 1..Len(old) : [new[i] EXCEPT !.rtv = old[i].rtv] = old[i]

\* The bytes the arena of uniform values held stay in it, and no uniform
\* the run adds is stored among them.
ArenaKept(old, new) ==
    /\ new.uniform_value_storage >= old.uniform_value_storage
    /\ \A i \in (Len(old.uniforms) + 1)..Len(new.uniforms) :
            new.uniforms[i].storage_offset >= old.uniform_value_storage

\* C16 as stated: a run leaves every texture of the registry, every cached
\* sampler state, the bytes of the uniform arena and every constant buffer
\* it found as they were, and only adds entries.
C16_OnlyAppendsAsStated ==
    [][ mon'.op = "run" =>
          /\ Kept(lk.runtime.textures, lk'.runtime.textures)
          /\ Kept(lk.runtime.effect_sampler_states, lk'.runtime.effect_sampler_states)
          /\ ArenaKept(lk.runtime, lk'.runtime)
          /\ Kept(lk.runtime.constant_buffers, lk'.runtime.constant_buffers) ]_vars

\* C16 of the code: the same, but a run may fill a render target view a
\* texture of the registry did not cache yet; a view it caches stays.
C16_OnlyAppendsButViews ==
    [][ mon'.op = "run" =>
          /\ KeptButViews(lk.runtime.textures, lk'.runtime.textures)
          /\ \A i \in 1..Len(lk.runtime.textures) : \A j \in 1..2 :
                \/ lk.runtime.textures[i].rtv[j] = NullView
                \/ lk'.runtime.textures[i].rtv[j] = lk.runtime.textures[i].rtv[j]
          /\ Kept(lk.runtime.effect_sampler_states, lk'.runtime.effect_sampler_states)
          /\ ArenaKept(lk.runtime, lk'.runtime)
          /\ Kept(lk.runtime.constant_buffers, lk'.runtime.constant_buffers) ]_vars

\* Effect 3 created the texture, 32 wide and 64 high, and has no pass; the
\* second run, of effect 4, drew to it and cached the view in its entry.
C16_ViewCachedOnExistingTexture ==
    /\ mon.op = "run" /\ mon.arg = 4 /\ ops = 2
    /\ Dimensions(lk.runtime) = <<<<Chars("a"), 32, 64, 1, "rgba8">>>>
    /\ lk.runtime.textures[1].rtv[1] # NullView
    /\ lk.runtime.techniques # <<>>

-----------------------------------------------------------------------------
(* C17 and C18: the sampler states and the hashes they are cached under.   *)

\* The state the last run bound the i-th sampler of its effect to; the
\* null state when it bound none.
Bound(i) ==
    IF Linked.samplers[i].binding + 1 <= Len(lk.sampler_bindings)
    THEN lk.sampler_bindings[Linked.samplers[i].binding + 1]
    ELSE NullSamplerState

\* C17: two samplers of an effect whose descriptors differ are bound to two
\* sampler state objects, and every sampler is bound to a state object
\* that was created from its own descriptor.
C17_DifferentDescriptorsDifferentStates ==
    mon.op = "run" =>
        \A i, j \in 1..Len(Linked.samplers) :
            /\ Bound(i) # NullSamplerState /\ Bound(j) # NullSamplerState
            /\ sampler_desc(Linked.samplers[i]) # sampler_desc(Linked.samplers[j])
            => /\ Bound(i).id # Bound(j).id
               /\ Bound(i).desc = sampler_desc(Linked.samplers[i])

\* The 32-bit FNV-1a hash of the bytes of desc, from the i-th on.
RECURSIVE Fnv1a32(_, _, _)
Fnv1a32(h, desc, i) ==
    IF i > Len(desc) \/ h = <<>> THEN h
    ELSE Fnv1a32(desc_hash_round_fnv1a(h, desc[i]), desc, i + 1)

Fnv1 ==
    [d \in 1..3 |->
        CASE d = 1 -> [w \in {2, 4} |-> IF w = 2 THEN <<16026, 19296>>
                                        ELSE <<16026, 19296, 53365, 35217>>]
          [] d = 2 -> [w \in {2, 4} |-> IF w = 2 THEN <<16026, 19296>>
                                        ELSE <<16026, 19296, 63056, 9340>>]
          [] d = 3 -> [w \in {2, 4} |-> IF w = 2 THEN <<30252, 44954>>
                                        ELSE <<30252, 44954, 39700, 9316>>]]

\* The descriptor of the bytes desc.
DescriptorOf(desc) ==
    CHOOSE d \in 1..3 : desc = sampler_desc(SamplerInfo("a", d, 0, FALSE))

-----------------------------------------------------------------------------
(* C19: what the run makes of a call on the device that fails.             *)

\* The run reported the failure of the call, with this severity.
Failure(call, severity) ==
    \E i \in 1..Len(lk.errors) :
        lk.errors[i] = [severity |-> severity, message |-> call]

\* The run reported nothing but warnings of the calls.
OnlyWarningsOf(calls) ==
    \A i \in 1..Len(lk.errors) :
        lk.errors[i].severity = "warning" /\ lk.errors[i].message \in calls

\* A pass the runtime holds draws to a texture without a view to draw
\* with: the render target view failed to be created.
PassWithoutView ==
    \E t \in 1..Len(lk.runtime.techniques) :
        \E p \in 1..Len(lk.runtime.techniques[t].passes) :
            \E k \in 1..RenderTargets :
                /\ lk.runtime.techniques[t].passes[p].render_targets[k] = NullView
                /\ lk.runtime.techniques[t].passes[p].render_target_resources[k] # NullView

\* The run was made to the end of run.
Returned == mon.op = "run" /\ lk.library # "none" /\ lk.aborted = ""

\* C19 as stated: a sampler state or a render target view that fails to be
\* created is a warning, the module is not failed and the pass is skipped;
\* a texture, a shader resource view or a shader that fails to be created
\* is an error and run returns false.
C19_SeverityAsStated ==
    Returned =>
        /\ \A call \in {"CreateSamplerState", "CreateRenderTargetView"} :
                ~Failure(call, "error")
        /\ OnlyWarningsOf({"CreateSamplerState", "CreateRenderTargetView"})
                => lk.success /\ lk.returned = "true"
        /\ ~PassWithoutView
        /\ \A call \in {"CreateTexture2D", "CreateShaderResourceView", "CreateShader"} :
                /\ ~Failure(call, "warning")
                /\ Failure(call, "error") => ~lk.success /\ lk.returned = "false"

\* C19 of the code: a render target view that fails to be created is a
\* warning, the module is not failed and the pass is registered without
\* the view; a sampler state, a texture, a shader resource view or a
\* shader that fails to be created is an error and run returns false.
C19_SeverityOfTheCode ==
    Returned =>
        /\ ~Failure("CreateRenderTargetView", "error")
        /\ OnlyWarningsOf({"CreateRenderTargetView"})
                => lk.success /\ lk.returned = "true"
        /\ Failure("CreateRenderTargetView", "warning") /\ lk.success
                => PassWithoutView
        /\ \A call \in {"CreateSamplerState", "CreateTexture2D",
                          "CreateShaderResourceView", "CreateShader"} :
                /\ ~Failure(call, "warning")
                /\ Failure(call, "error") => ~lk.success /\ lk.returned = "false"

\* A run in which the render target view of a pass failed to be created
\* returned true, and its pass is registered without the view.
C19_PassRegisteredWithoutView ==
    /\ Returned /\ lk.returned = "true"
    /\ Failure("CreateRenderTargetView", "warning")
    /\ PassWithoutView

-----------------------------------------------------------------------------
(* C20: the shader resources of a pass and the render targets it draws to. *)

\* A render target of the pass draws to the resource the view shows.
DrawnTo(pass, view) ==
    \E k \in 1..RenderTargets :
        /\ pass.render_targets[k] # NullView
        /\ pass.render_targets[k].resource = view.resource

\* C20: in every pass of every technique the runtime holds, no shader
\* resource that is not null shows a resource a render target of the pass
\* draws to; and the passes a run registers hold the texture bindings of
\* the run, each but for the bindings the pass itself draws to, which are
\* null in that pass only: the texture bindings of the run keep them.
C20_NoResourceReadAndDrawnTo ==
    [][ mon'.op = "run" =>
          \A t \in 1..Len(lk'.runtime.techniques) :
            \A p \in 1..Len(lk'.runtime.techniques[t].passes) :
              LET pass == lk'.runtime.techniques[t].passes[p]
              IN  /\ \A i \in 1..Len(pass.shader_resources) :
                        \/ pass.shader_resources[i] = NullView
                        \/ ~DrawnTo(pass, pass.shader_resources[i])
                  /\ t > Len(lk.runtime.techniques) =>
                        /\ Len(pass.shader_resources) = Len(lk'.texture_bindings)
                        /\ \A i \in 1..Len(lk'.texture_bindings) :
                              pass.shader_resources[i] =
                                IF /\ lk'.texture_bindings[i] # NullView
                                   /\ DrawnTo(pass, lk'.texture_bindings[i])
                                THEN NullView ELSE lk'.texture_bindings[i] ]_vars

\* The first pass of a technique draws to the texture the first sampler
\* shows and holds null for it; the second pass does not draw to it and
\* holds its view, as the texture bindings of the run do.
C20_ResetInOnePassOnly ==
    /\ mon.op = "run" /\ lk.texture_bindings # <<>>
    /\ lk.texture_bindings[1] # NullView
    /\ \E t \in 1..Len(lk.runtime.techniques) :
            /\ Len(lk.runtime.techniques[t].passes) = 2
            /\ lk.runtime.techniques[t].passes[1].shader_resources = <<NullView>>
            /\ DrawnTo(lk.runtime.techniques[t].passes[1], lk.texture_bindings[1])
            /\ lk.runtime.techniques[t].passes[2].shader_resources = lk.texture_bindings

-----------------------------------------------------------------------------
(* C21: the sizes of the render targets of a pass and its viewport.        *)

DifferentSized ==
    [severity |-> "error",
     message |-> "cannot use multiple rendertargets with different sized textures"]

\* The textures of runtime r the pass draws to: those whose resource a
\* render target resource of the pass shows.
TargetsOf(r, pass) ==
    {i \in 1..Len(r.textures) :
        /\ r.textures[i].texture # 0
        /\ \E k \in 1..RenderTargets :
                pass.render_target_resources[k].resource = r.textures[i].texture}

\* The sizes of the textures of runtime r the pass of an effect names as
\* its render targets.
SizesNamed(r, pass_info) ==
    {<<r.textures[find_texture(r, pass_info.render_target_names[k])].width,
       r.textures[find_texture(r, pass_info.render_target_names[k])].height>> :
        k \in {j \in 1..RenderTargets :
                    /\ pass_info.render_target_names[j] # <<>>
                    /\ find_texture(r, pass_info.render_target_names[j]) # 0}}

\* The techniques of the effect with a pass that names render targets of
\* two sizes.
TwoSizes(r, effect) ==
    {t \in 1..Len(effect.techniques) :
        \E p \in 1..Len(effect.techniques[t].passes) :
            Cardinality(SizesNamed(r, effect.techniques[t].passes[p])) > 1}

\* C21: the render targets of every pass the runtime holds have one size,
\* which is the viewport of the pass, and the viewport of a pass without
\* render target textures is the frame; a run that visits a technique with
\* a pass naming render targets of two sizes reports an error, fails the
\* module and does not register that technique.
C21_OneSizeIsTheViewport ==
    [][ mon'.op = "run" =>
          /\ \A t \in 1..Len(lk'.runtime.techniques) :
                \A p \in 1..Len(lk'.runtime.techniques[t].passes) :
                  LET pass == lk'.runtime.techniques[t].passes[p]
                  IN  IF TargetsOf(lk'.runtime, pass) = {}
                      THEN pass.viewport = [Width |-> lk'.runtime.frame_width,
                                            Height |-> lk'.runtime.frame_height]
                      ELSE \A i \in TargetsOf(lk'.runtime, pass) :
                              pass.viewport = [Width |-> lk'.runtime.textures[i].width,
                                               Height |-> lk'.runtime.textures[i].height]
          /\ Returned' /\ ~CompileFailed' /\ TwoSizes(lk'.runtime, Linked') # {} =>
                /\ Reported(lk', DifferentSized) >= 1
                /\ ~lk'.success /\ lk'.returned = "false"
                /\ Len(lk'.runtime.techniques) - Len(lk.runtime.techniques)
                        <= Len(Linked'.techniques)
                            - Cardinality(TwoSizes(lk'.runtime, Linked')) ]_vars

\* Effect 5 was linked: its first technique, whose pass draws to the
\* texture 32 wide, is registered with that viewport, and its second, whose
\* pass draws to textures 64 and 32 wide, is reported and not registered.
C21_SecondTechniqueRefused ==
    /\ Returned /\ mon.arg = 5 /\ ops = 1
    /\ Reported(lk, DifferentSized) = 1
    /\ Len(lk.runtime.techniques) = 1
    /\ lk.runtime.techniques[1].passes[1].viewport = [Width |-> 32, Height |-> 32]

-----------------------------------------------------------------------------
(* C22: the uniform arena and the constant buffers after a run             *)
(* (SpecLayout).                                                           *)

\* The end of the uniform that ends last.
RECURSIVE Extent(_)
Extent(uniforms) ==
    IF uniforms = <<>> THEN 0
    ELSE LET rest == Extent(Tail(uniforms))
             end == Head(uniforms).offset + Head(uniforms).size
         IN  IF end > rest THEN end ELSE rest

\* The least multiple of 16 that is no less than n.
NextMultipleOf16(n) == CHOOSE b \in n..(n + 15) : b % 16 = 0

\* A run, made in this step, loaded the compiler library and returned.
Ran == mon'.op = "run" /\ lk'.library # "none" /\ lk'.aborted = ""

\* C22: a run over a module with uniforms grows the arena of the runtime
\* by B and appends one constant buffer of size B, where B is the end of
\* the uniform that ends last, rounded up to a multiple of 16; a run over
\* a module without uniforms leaves the arena and the constant buffers.
C22_ArenaGrowsByTheBlock ==
    [][ Ran =>
          IF out.s.uniforms # <<>>
          THEN /\ lk'.runtime.uniform_value_storage =
                    lk.runtime.uniform_value_storage
                        + NextMultipleOf16(Extent(out.s.uniforms))
               /\ lk'.runtime.constant_buffers =
                    Append(lk.runtime.constant_buffers,
                           NextMultipleOf16(Extent(out.s.uniforms)))
          ELSE /\ lk'.runtime.uniform_value_storage = lk.runtime.uniform_value_storage
               /\ lk'.runtime.constant_buffers = lk.runtime.constant_buffers ]_vars

\* The module, whose uniforms end at a byte that is no multiple of 16, has
\* been linked twice: two constant buffers of one size, an arena of twice
\* that size.
C22_LinkedTwice ==
    /\ mon.op = "run" /\ lk.returned = "true"
    /\ Extent(out.s.uniforms) % 16 # 0
    /\ Len(lk.runtime.constant_buffers) = 2
    /\ lk.runtime.uniform_value_storage = 2 * lk.runtime.constant_buffers[1]

-----------------------------------------------------------------------------
(* C23: the compiler library a run loads.                                  *)

UnableToLoad ==
    [severity |-> "", message |-> "Unable to load D3DCompiler library"]

\* C23: a run that loaded the compiler library, version 47 or 43, has
\* freed it once, whether it returned true, returned false or stopped in
\* a technique; a run for which no version loaded returned false with the
\* message and freed nothing.
C23_LibraryFreedOnce ==
    mon.op = "run" =>
        IF lk.library = "none"
        THEN lk.returned = "false" /\ lk.freed = 0 /\ lk.errors = <<UnableToLoad>>
        ELSE lk.library \in {"47", "43"} /\ lk.freed = 1

\* A run loaded version 43, an entry point did not compile, and the run
\* returned false with the library freed.
C23_FreedAfterFailure ==
    /\ CompileFailed /\ lk.library = "43"
    /\ lk.returned = "false" /\ lk.freed = 1

-----------------------------------------------------------------------------
(* C24: the writes of visit_uniform into the uniform arena (SpecLayout).   *)

\* C24: every write of the initial value of a uniform ends within the
\* arena as it is at the moment of the write.
C24_WritesInArena ==
    mon.op = "run" => lk.writes_in_arena

-----------------------------------------------------------------------------
(* C25: the order of the type declarations (SpecIntern).                   *)

\* The operands of a type declaration that are ids of types.
TypeOperands(ins) ==
    CASE ins.op \in {"OpTypeStruct", "OpTypeFunction"} ->
            {ins.operands[k] : k \in 1..Len(ins.operands)}
      [] ins.op = "OpTypePointer" -> {ins.operands[2]}
      [] ins.op \in {"OpTypeVector", "OpTypeMatrix", "OpTypeArray",
                     "OpTypeRuntimeArray"} -> {ins.operands[1]}
      [] OTHER -> {}

\* C25: every type a declaration of the type and constant section uses is
\* the result of an instruction that comes before the declaration.
C25_TypesDeclaredBeforeUse ==
    \A n \in 1..Len(cg.types_and_constants) :
        \A type \in TypeOperands(cg.types_and_constants[n]) :
            \E m \in 1..(n - 1) : cg.types_and_constants[m].result = type

\* What the code does where the order fails: the type of a member of a
\* struct is declared after the struct.
C25_MemberDeclaredAfterStruct ==
    \E n \in 1..Len(cg.types_and_constants) :
        /\ cg.types_and_constants[n].op = "OpTypeStruct"
        /\ \E type \in TypeOperands(cg.types_and_constants[n]) :
                \E m \in (n + 1)..Len(cg.types_and_constants) :
                    cg.types_and_constants[m].result = type

-----------------------------------------------------------------------------
(* C26: where the instructions of the emit operations go (SpecBlocks).     *)

\* An instruction of this result id is in the body of a function, which is
\* what write_result writes of the function.
InFunctionBody(result) ==
    \E f \in 1..Len(cg.functions2) :
        \E i \in 1..Len(cg.functions2[f].definition) :
            cg.functions2[f].definition[i].result = result

\* An emit operation has just returned the id of the instruction it added.
Emitted ==
    /\ mon.op \in {"emit_binary_op", "emit_unary_op"}
    /\ cg.aborted = "" /\ mon.ret # 0

\* C26: the instruction an emit operation adds inside a function is in the
\* body of the function, whether the block was selected with enter_block
\* or with set_block.
C26_EmittedIsInBody ==
    Emitted => InFunctionBody(mon.ret)

\* What the code does: the instruction is in the body when the block was
\* entered with enter_block, and in the block data of set_block, which
\* write_result does not read, when the block was selected with set_block.
C26_EmittedIsInCurrentBlockData ==
    Emitted =>
        IF cg.current_block_data.k = "blk"
        THEN /\ ~InFunctionBody(mon.ret)
             /\ \E i \in 1..Len(block_data_get(cg, cg.current_block_data.idx)) :
                    block_data_get(cg, cg.current_block_data.idx)[i].result = mon.ret
        ELSE InFunctionBody(mon.ret)

-----------------------------------------------------------------------------
(* C27: the locations within one entry point (Spec).                       *)

\* The interface variables of entry point e of the storage class.
C27_Variables(e, storage) ==
    {v \in Range(mon.entry_points[e].variables) : C9_Storage(v) = {storage}}

\* C27: within one entry point no two Input variables and no two Output
\* variables carry the same Location decoration.
C27_DistinctLocations ==
    Alive =>
        \A e \in 1..Len(mon.entry_points) : \A storage \in {1, 3} :
            \A v, w \in C27_Variables(e, storage) :
                v # w => C9_Locations(v) \cap C9_Locations(w) = {}

-----------------------------------------------------------------------------
(* C28: the operations emit_load and emit_store read (SpecChains).         *)

\* emit_load or emit_store has just worked on an lvalue access chain.
OnLvalue ==
    /\ mon.op \in {"emit_load", "emit_store"}
    /\ mon.arg.is_lvalue

\* C28: emit_load and emit_store read the operations of an lvalue access
\* chain at positions below the length of its operation list only: the
\* position after the last one read, op_index2, is at most the length.
C28_ReadsBelowLength ==
    OnLvalue => cg.op_index2 <= Len(mon.arg.ops)

\* What the code does: it reads behind the end exactly when the only
\* operation of the chain is an index into a 1xN matrix.
C28_ReadsBehindOneIndexOf1xN ==
    OnLvalue /\ cg.aborted # "crash" =>
        (cg.op_index2 > Len(mon.arg.ops)
            <=> /\ Len(mon.arg.ops) = 1
                /\ mon.arg.ops[1].type = "op_index"
                /\ mon.arg.ops[1].from.rows = 1 /\ mon.arg.ops[1].from.cols > 1)

-----------------------------------------------------------------------------
(* C29: write_result called twice (SpecWrites).                            *)

\* The instructions of a module that declare or decorate $Globals: its
\* name, its Block, Binding and DescriptorSet decorations, its variable.
C29_Globals(s) ==
    {i \in 1..Len(s.instructions) :
        LET ins == s.instructions[i]
        IN  \/ ins.op = "OpName" /\ Tail(ins.operands) = add_string(Chars("$Globals"))
            \/ ins.op = "OpDecorate" /\ ins.operands[2] \in {2, 33, 34}
            \/ ins.op = "OpVariable" /\ ins.operands[1] = 2}

\* write_result has just written a module and has written one before.
C29_WrittenAgain == out.n + 1 = out'.n /\ out.n > 0

\* C29: write_result leaves the generator as it was, so a second call
\* writes the word stream of the first, and each module holds the name,
\* the three decorations and the variable of $Globals once.
C29_SecondWriteIdentical ==
    [][/\ out.n + 1 = out'.n => Cardinality(C29_Globals(out'.s)) = 5
       /\ C29_WrittenAgain =>
            /\ out'.s.spirv = out.s.spirv
            /\ module_sections(cg') = module_sections(cg)]_vars

\* What the code does: each write_result adds the struct, the decorations
\* and the variable of $Globals to the generator once more, so the n-th
\* module holds them n times and is longer than the one before.
C29_GlobalsOncePerCall ==
    [][/\ out.n + 1 = out'.n => Cardinality(C29_Globals(out'.s)) = 5 * out'.n
       /\ C29_WrittenAgain => Len(out'.s.spirv) > Len(out.s.spirv)]_vars

-----------------------------------------------------------------------------
(* C30: the constant buffer a technique names (SpecLink).                  *)

\* The places of the techniques the run just made has registered.
C30_Registered ==
    (Len(lk.runtime.techniques) + 1)..Len(lk'.runtime.techniques)

\* C30: each technique a run registers for a module with uniforms names,
\* in uniform_storage_index, the place (counted from 0) of the constant
\* buffer this run appends to the list of the runtime, and in
\* uniform_storage_offset the size the arena had when the run began.
C30_TechniqueNamesItsBuffer ==
    [][ (mon'.op = "run" /\ lk'.aborted = "" /\ Effects[mon'.arg].uniforms # <<>>) =>
          \A i \in C30_Registered :
            /\ Len(lk'.runtime.constant_buffers) = Len(lk.runtime.constant_buffers) + 1
            /\ lk'.runtime.techniques[i].uniform_storage_index
                    = Len(lk.runtime.constant_buffers)
            /\ lk'.runtime.techniques[i].uniform_storage_offset
                    = lk.runtime.uniform_value_storage ]_vars

\* A second run has registered two techniques after an earlier run had
\* appended a constant buffer: both name the second buffer and the end of
\* the first block of the arena.
C30_TwoTechniquesOfSecondRun ==
    /\ mon.op = "run" /\ lk.aborted = ""
    /\ Len(Linked.techniques) = 2 /\ Linked.uniforms # <<>>
    /\ Len(lk.runtime.constant_buffers) = 2
    /\ Len(lk.runtime.techniques) >= 3
    /\ \A i \in (Len(lk.runtime.techniques) - 1)..Len(lk.runtime.techniques) :
            /\ lk.runtime.techniques[i].uniform_storage_index = 1
            /\ lk.runtime.techniques[i].uniform_storage_offset
                    = lk.runtime.constant_buffers[1]
            /\ lk.runtime.techniques[i].uniform_storage_offset > 0

=============================================================================
